---- MODULE Spec2Model ----
(***************************************************************************)
(* A model of the QA_NOISE perturbation framework: the character-level and *)
(* word-level attacks (the perturbations package), the batch driver        *)
(* (generate_attacks.py) and the evaluators' file loops (evaluation.py,     *)
(* evaluation_with_log.py).                                                 *)
(*                                                                         *)
(* Text is a sequence of characters; a character is a one-letter string.   *)
(* Python indices are 0-based and are kept 0-based in every "pick"; the    *)
(* slicing operators below translate them to TLA+'s 1-based sequences.     *)
(***************************************************************************)
EXTENDS Integers, Sequences, FiniteSets, Bags, TLC

VARIABLES
    \* --- a call of one core function (execute_deletion, execute_swap) ---
    fn,         \* "none" before the call, then the function that ran
    word,       \* the argument
    cfg,        \* the instance's max_perturbs and length_of_word_to_perturb
    run,        \* the call's outcome: result word, raised, picks, steps
    \* --- calls of apply_on_sample on one sample ---
    enc,        \* how the tagger prints token.feature: "csv" or "attr"
    toks,       \* the tagger's tokens of each text field of the sample
    sample,     \* the sample: a dict from keys to values
    call,       \* the last call of apply_on_sample: attacker, locals, outcome
    left,       \* how many calls of apply_on_sample are still to come
    \* --- a run of generate_attacks.py, evaluation.py or evaluation_with_log.py ---
    args,       \* the command line and what the run finds outside itself
    pc,         \* where main is: "start", "loop" or "done"
    cursor,     \* the 1-based position of the for loop in its list
    disk,       \* what the run created or wrote: path -> the writes, in order
    printed,    \* the messages printed, in order
    results,    \* the evaluators' list of summary records
    status,     \* "running", or how the process ended: "exit 0", "exit 1"
    \* --- a call of evaluate_dataset, or of f1_score alone ---
    size,       \* len(dataset)
    count,      \* the samples scored so far
    total,      \* total_f1 and total_em
    scored,     \* the sample scored last: its locals and its scores
    returned,   \* how the call ended: the averages, or that it raised
    \* --- the constructions of HomophoneError in one working directory ---
    cache,      \* the file skk_dict.txt: whether it exists, and its lines
    skk,        \* self.skk_dict of the instance constructed last
    built,      \* the constructions so far: what each found and did
    \* --- the while loop of SwapWord.apply_on_sample, pass by pass ---
    loop        \* where the call is, and its locals

wordVars == <<fn, word, cfg, run>>
attackVars == <<enc, toks, sample, call, left>>
driverVars == <<args, pc, cursor, disk, printed, results, status>>
scoreVars == <<size, count, total, scored, returned>>
lexVars == <<cache, skk, built>>
vars == <<fn, word, cfg, run, enc, toks, sample, call, left,
          args, pc, cursor, disk, printed, results, status,
          size, count, total, scored, returned,
          cache, skk, built, loop>>

\* no run of a main program is part of the behaviour
IdleDriver ==
    /\ args = <<>> /\ pc = "off" /\ cursor = 0 /\ disk = <<>>
    /\ printed = <<>> /\ results = <<>> /\ status = "off"

\* no call of evaluate_dataset is part of the behaviour
IdleScore ==
    /\ size = 0 /\ count = 0 /\ total = <<>> /\ scored = <<>> /\ returned = <<>>

\* no construction of HomophoneError is part of the behaviour yet
IdleLexicon ==
    /\ cache = [exists |-> FALSE, lines |-> <<>>]
    /\ skk = <<>>
    /\ built = <<>>

\* the locals of SwapWord.apply_on_sample before any call
NoLoop ==
    [state |-> "off", field |-> "none", max_words |-> 0, target_indices |-> <<>>,
     word_list |-> <<>>, target_indices_pool |-> <<>>, swap_count |-> 0,
     pairs |-> <<>>]

\* no call of SwapWord.apply_on_sample is followed pass by pass
IdleLoop == loop = NoLoop

----------------------------------------------------------------------------
(* Bounds of the model *)

\* longest word handed to a core function
MaxLen == 3
\* largest max_perturbs of an instance
MaxPerturbs == 2
\* largest length_of_word_to_perturb of an instance
MaxThreshold == 2
\* most tokens in the perturbed text field
MaxTokens == 2

----------------------------------------------------------------------------
(* Characters *)

\* hiragana, ぀-ゟ
Hiragana == {"n", "k"}
\* katakana, ゠-ヿ
Katakana == {"K"}
\* everything else that occurs in a word (kanji)
Kanji == {"x", "y"}

Alphabet == Hiragana \cup Katakana \cup Kanji

RECURSIVE SeqsUpTo(_, _)
\* all sequences over S of length at most n
SeqsUpTo(S, n) ==
    IF n = 0 THEN {<<>>}
    ELSE LET shorter == SeqsUpTo(S, n - 1)
         IN  shorter \cup {Append(w, c) : w \in {v \in shorter : Len(v) = n - 1}, c \in S}

Words == SeqsUpTo(Alphabet, MaxLen)

----------------------------------------------------------------------------
(* Python primitives *)

\* s[a:b] with 0 <= a, 0 <= b (0-based, end exclusive)
Slice(s, a, b) == SubSeq(s, a + 1, IF b > Len(s) THEN Len(s) ELSE b)

\* s[a:]
SliceFrom(s, a) == SubSeq(s, a + 1, Len(s))

\* the values random.randrange(a, b) may return; empty means ValueError
RandRange(a, b) == a .. (b - 1)

Min(a, b) == IF a <= b THEN a ELSE b

----------------------------------------------------------------------------
(* DeleteChar.execute_deletion *)

\* the half-open range of deletion positions drawn for a word of this length
DeletePositions(length) == RandRange(0, length - 1)

\* new_word[:idx] + new_word[idx + 1:]
DeleteAt(w, idx) == Slice(w, 0, idx) \o SliceFrom(w, idx + 1)

RECURSIVE DeletionRuns(_, _, _)
\* every way the loop "for _ in range(max_perturbs)" can run on w:
\* the word returned, whether randrange raised, the positions drawn and the
\* word after each deletion
DeletionRuns(w, n, th) ==
    IF n = 0 \/ ~(Len(w) > th)
    THEN {[word |-> w, raised |-> FALSE, picks |-> <<>>, steps |-> <<>>]}
    ELSE IF DeletePositions(Len(w)) = {}
    THEN {[word |-> w, raised |-> TRUE, picks |-> <<>>, steps |-> <<>>]}
    ELSE UNION {
           {[r EXCEPT !.picks = <<i>> \o r.picks,
                      !.steps = <<DeleteAt(w, i)>> \o r.steps]
              : r \in DeletionRuns(DeleteAt(w, i), n - 1, th)}
           : i \in DeletePositions(Len(w))}

----------------------------------------------------------------------------
(* SwapChar.execute_swap *)

\* a swap that keeps the second character in the tail: [i+1:] for [i+2:]
SwapAtKeepsTail(w, i) ==
    Slice(w, 0, i) \o <<w[i + 2]>> \o <<w[i + 1]>> \o SliceFrom(w, i + 1)

\* new_word[:i] + new_word[i+1] + new_word[i] + new_word[i+2:]
SwapAt(w, i) ==
    Slice(w, 0, i) \o <<w[i + 2]>> \o <<w[i + 1]>> \o SliceFrom(w, i + 2)

\* if length > self.length_of_word_to_perturb and length >= 2
SwapGuard(length, th) == length > th /\ length >= 2

RECURSIVE SwapRuns(_, _, _)
SwapRuns(w, n, th) ==
    IF n = 0 \/ ~SwapGuard(Len(w), th)
    THEN {[word |-> w, raised |-> FALSE, picks |-> <<>>, steps |-> <<>>]}
    ELSE UNION {
           {[r EXCEPT !.picks = <<i>> \o r.picks,
                      !.steps = <<SwapAt(w, i)>> \o r.steps]
              : r \in SwapRuns(SwapAt(w, i), n - 1, th)}
           : i \in RandRange(0, Len(w) - 1)}

----------------------------------------------------------------------------
(* One call of a core function on a word *)

NoRun == [word |-> <<>>, raised |-> FALSE, picks |-> <<>>, steps |-> <<>>]

InitWord ==
    /\ fn = "none"
    /\ word \in Words
    /\ cfg \in [max_perturbs : 1 .. MaxPerturbs,
                length_of_word_to_perturb : 0 .. MaxThreshold]
    /\ run = NoRun
    /\ enc = "csv" /\ toks = <<>> /\ sample = <<>> /\ call = <<>> /\ left = 0
    /\ IdleDriver
    /\ IdleScore
    /\ IdleLexicon
    /\ IdleLoop

ExecuteDeletion ==
    /\ fn = "none"
    /\ fn' = "execute_deletion"
    /\ run' \in DeletionRuns(word, cfg.max_perturbs, cfg.length_of_word_to_perturb)
    /\ UNCHANGED <<word, cfg>>
    /\ UNCHANGED <<attackVars, driverVars, scoreVars, lexVars, loop>>

ExecuteSwap ==
    /\ fn = "none"
    /\ fn' = "execute_swap"
    /\ run' \in SwapRuns(word, cfg.max_perturbs, cfg.length_of_word_to_perturb)
    /\ UNCHANGED <<word, cfg>>
    /\ UNCHANGED <<attackVars, driverVars, scoreVars, lexVars, loop>>

NextWord == ExecuteDeletion \/ ExecuteSwap

SpecWord == InitWord /\ [][NextWord]_vars

----------------------------------------------------------------------------
(* C8: DeleteChar.execute_deletion with max_perturbs = 1 never raises;     *)
(* a word longer than the threshold loses exactly one character and a word *)
(* at or below the threshold is returned unchanged.                        *)

\* w2 is w1 with exactly one character removed
OneCharRemoved(w1, w2) ==
    \E i \in 1 .. Len(w1) : w2 = SubSeq(w1, 1, i - 1) \o SubSeq(w1, i + 1, Len(w1))

C8_DeletionLengthNoRaise ==
    (fn = "execute_deletion" /\ cfg.max_perturbs = 1) =>
        /\ ~run.raised
        /\ Len(word) > cfg.length_of_word_to_perturb =>
              Len(run.word) = Len(word) - 1 /\ OneCharRemoved(word, run.word)
        /\ Len(word) <= cfg.length_of_word_to_perturb => run.word = word

----------------------------------------------------------------------------
(* C9: SwapChar.execute_swap returns a word of fewer than 2 characters     *)
(* unchanged and never raises; each swap exchanges the characters at       *)
(* positions i and i+1, 0 <= i <= len-2, changes nothing else, and the     *)
(* same swap applied again gives back the word before it.                  *)

\* the word before the k-th swap of the run
WordBefore(k) == IF k = 1 THEN word ELSE run.steps[k - 1]

C9_SwapAdjacentInvolution ==
    fn = "execute_swap" =>
        /\ ~run.raised
        /\ Len(word) < 2 => run.word = word /\ run.picks = <<>>
        /\ Len(run.steps) = Len(run.picks)
        /\ run.word = (IF run.steps = <<>> THEN word ELSE run.steps[Len(run.steps)])
        /\ \A k \in 1 .. Len(run.picks) :
              LET i      == run.picks[k]
                  before == WordBefore(k)
                  after  == run.steps[k]
              IN  /\ 0 <= i /\ i <= Len(before) - 2
                  /\ Len(after) = Len(before)
                  /\ after[i + 1] = before[i + 2]
                  /\ after[i + 2] = before[i + 1]
                  /\ \A j \in 1 .. Len(before) :
                        j \notin {i + 1, i + 2} => after[j] = before[j]
                  /\ SwapAt(after, i) = before

C9_Witness ==
    /\ fn = "execute_swap"
    /\ Len(run.picks) = 2
    /\ run.picks[1] # run.picks[2]
    /\ run.word # word

----------------------------------------------------------------------------
(* C17: in DeleteChar.execute_deletion each deletion removes the character *)
(* at a position drawn from all positions 0..len-1 of the current word:    *)
(* every position, the last one included, is a possible deletion position. *)

\* execute_deletion can delete position p of w as its first deletion
CanDeleteAt(w, p) ==
    \E r \in DeletionRuns(w, 1, cfg.length_of_word_to_perturb) :
        ~r.raised /\ r.picks = <<p>>

C17_EveryPositionCanBeDeleted ==
    fn = "execute_deletion" =>
        \A k \in 1 .. Len(run.picks) :
            /\ run.picks[k] \in 0 .. Len(WordBefore(k)) - 1
            /\ \A p \in 0 .. Len(WordBefore(k)) - 1 : CanDeleteAt(WordBefore(k), p)

----------------------------------------------------------------------------
(* C18: a token is admitted for delete_char, replace_char and swap_char    *)
(* only if len(surface) > length_of_word_to_perturb (for insert_char and   *)
(* repeat_char: >=); for every threshold >= 0 and every max_perturbs the   *)
(* deletion of an admitted token ends with a non-empty token of length at  *)
(* least the threshold.                                                    *)

\* the strict length test of DeleteChar's target selection
Admitted(w) == Len(w) > cfg.length_of_word_to_perturb

C18_DeletionLeavesNonEmptyToken ==
    (fn = "execute_deletion" /\ Admitted(word)) =>
        /\ ~run.raised
        /\ Len(run.word) >= 1
        /\ Len(run.word) >= cfg.length_of_word_to_perturb

----------------------------------------------------------------------------
(* Tokens and the tagger's feature strings *)

\* the coarse part-of-speech categories; the code's names are
\* 名詞, 動詞, 助詞, 助動詞, 記号, BOS/EOS, 空白
PosNoun == "noun"
PosVerb == "verb"
PosParticle == "particle"
PosAuxVerb == "auxverb"
PosSymbol == "symbol"
PosBosEos == "BOS/EOS"
PosBlank == "blank"

\* ['助詞', '助動詞', '記号', 'BOS/EOS', '空白']
ExcludedPos == {PosParticle, PosAuxVerb, PosSymbol, PosBosEos, PosBlank}

\* ['記号', 'BOS/EOS', '空白'], the list of the two katakana conversions
ExcludedPosK2H == {PosSymbol, PosBosEos, PosBlank}

\* the tokens a sentence is made of: surface, category and reading (katakana)
Vocabulary ==
    { [surface |-> <<"x", "y">>, pos |-> PosNoun,     kana |-> <<"K">>],
      [surface |-> <<"x">>,      pos |-> PosNoun,     kana |-> <<"K", "K">>],
      [surface |-> <<"K", "y">>, pos |-> PosNoun,     kana |-> <<"K">>],
      [surface |-> <<"y", "n">>, pos |-> PosVerb,     kana |-> <<>>],
      [surface |-> <<"K", "n">>, pos |-> PosParticle, kana |-> <<"K">>] }

Sentences == SeqsUpTo(Vocabulary, MaxTokens)

\* str(token.feature): a sequence of atoms. "csv" is the comma-delimited
\* string 'noun,*'; "attr" is the named tuple's print,
\* "Features(pos1='noun', kana='K')". The characters of the reading are atoms.
Feature(tok, e) ==
    IF e = "csv"
    THEN <<tok.pos, ",", "*">>
    ELSE <<"Features(", "pos1='", tok.pos, "'", ",", "kana='">> \o tok.kana \o <<"'", ")">>

\* str.find(a, start): the 0-based index of the first a at or after start, or -1
Find(f, a, start) ==
    LET hits == {i \in start .. Len(f) - 1 : f[i + 1] = a}
    IN  IF hits = {} THEN -1 ELSE CHOOSE i \in hits : \A j \in hits : i <= j

\* f[a:b] for a >= 0 and any b; a negative b counts from the end
PySlice(f, a, b) ==
    LET stop == IF b < 0 THEN (IF b + Len(f) < 0 THEN 0 ELSE b + Len(f))
                ELSE IF b > Len(f) THEN Len(f) ELSE b
    IN  SubSeq(f, a + 1, stop)

\* str(token.feature).split(',')[0]
PosByComma(f) ==
    LET c == Find(f, ",", 0) IN IF c = -1 THEN f ELSE PySlice(f, 0, c)

\* the pos1='...' attribute when present, otherwise the first comma field
PosByAttribute(f) ==
    IF Find(f, "pos1='", 0) # -1
    THEN LET start == Find(f, "pos1='", 0) + 1
             stop  == Find(f, "'", start)
         IN  PySlice(f, start, stop)
    ELSE PosByComma(f)

\* pos in [...]: pos is one of the listed category strings
InList(pos, list) == \E c \in list : pos = <<c>>

\* self.pos_tag is None or pos == self.pos_tag
PosTagMatches(pos, tag) == tag = "None" \/ pos = <<tag>>

PosTags == {"None", PosNoun}

\* re.search(r"kana='([^']*)'", feature_str), then pron=: the captured
\* reading, or <<>> when neither matches
ReadingOf(f) ==
    LET from(key) ==
            LET k == Find(f, key, 0)
                q == IF k = -1 THEN -1 ELSE Find(f, "'", k + 1)
            IN  IF q = -1 THEN <<>> ELSE PySlice(f, k + 1, q)
        kanaHit(key) == Find(f, key, 0) # -1 /\ Find(f, "'", Find(f, key, 0) + 1) # -1
    IN  IF kanaHit("kana='") THEN from("kana='")
        ELSE IF kanaHit("pron='") THEN from("pron='")
        ELSE <<>>

\* jaconv.kata2hira on one character
Kata2HiraChar(c) == IF c = "K" THEN "k" ELSE c

\* jaconv.kata2hira on a string
Kata2Hira(w) == [i \in 1 .. Len(w) |-> Kata2HiraChar(w[i])]

\* re.search(class, word_text)
HasCharOf(w, class) == \E i \in 1 .. Len(w) : w[i] \in class

RECURSIVE Join(_)
\* "".join(word_list)
Join(ws) == IF ws = <<>> THEN <<>> ELSE Head(ws) \o Join(Tail(ws))

Surfaces(ts) == [i \in 1 .. Len(ts) |-> ts[i].surface]

\* the indices of a set in increasing order (the order of "for token in tokens")
InOrder(S) ==
    CHOOSE q \in [1 .. Cardinality(S) -> S] :
        \A i, j \in 1 .. Cardinality(S) : i < j => q[i] < q[j]

----------------------------------------------------------------------------
(* Selection and reinsertion *)

\* a sample size that ignores how many targets there are
SampleSizeIgnoresTargets(mw, n) == mw

\* min(self.max_words, len(target_tokens))
SampleSize(mw, n) == Min(mw, n)

\* random.sample(population of n, k): the k distinct positions in the order
\* drawn; k > n raises ValueError (no sample)
Samples(n, k) ==
    {q \in [1 .. k -> 1 .. n] : \A i, j \in 1 .. k : i # j => q[i] # q[j]}

\* str.find of a substring: 0-based index of the first occurrence, or -1
FindSub(text, old) ==
    LET hits == {i \in 0 .. Len(text) - Len(old) :
                    SubSeq(text, i + 1, i + Len(old)) = old}
    IN  IF hits = {} THEN -1 ELSE CHOOSE i \in hits : \A j \in hits : i <= j

\* a replacement of the last occurrence instead of the first
ReplaceLast(text, old, new) ==
    LET hits == {i \in 0 .. Len(text) - Len(old) :
                    SubSeq(text, i + 1, i + Len(old)) = old}
    IN  IF hits = {} THEN text
        ELSE LET i == CHOOSE h \in hits : \A j \in hits : j <= h
             IN  Slice(text, 0, i) \o new \o SliceFrom(text, i + Len(old))

\* perturbed_text.replace(original_word, new_word, 1)
ReplaceFirst(text, old, new) ==
    LET i == FindSub(text, old)
    IN  IF i = -1 THEN text
        ELSE Slice(text, 0, i) \o new \o SliceFrom(text, i + Len(old))

RECURSIVE Trail(_, _, _)
\* the values perturbed_text takes in "for original_word in words_to_perturb"
Trail(text, olds, news) ==
    IF olds = <<>> \/ news = <<>> THEN <<>>
    ELSE LET next == ReplaceFirst(text, Head(olds), Head(news))
         IN  <<next>> \o Trail(next, Tail(olds), Tail(news))

Last(q, default) == IF q = <<>> THEN default ELSE q[Len(q)]

----------------------------------------------------------------------------
(* The sample and the record of a call *)

DataFields == {"question", "context"}

\* a key of the sample that came with the dataset
Key(name) == <<name>>

\* f'{self.data_field}_perturbed_<SUFFIX>'
PerturbedKey(field, suffix) == <<field, "_perturbed_", suffix>>

\* sample[key] = value
Put(d, key, value) ==
    [k \in DOMAIN d \cup {key} |-> IF k = key THEN value ELSE d[k]]

NoLexicon == [y \in {} |-> <<>>]

NoCall ==
    [attack |-> "none", field |-> "none", key |-> <<>>,
     max_words |-> 0, max_perturbs |-> 0, threshold |-> 0, pos_tag |-> "None",
     lex |-> NoLexicon, raw |-> <<>>, targets |-> <<>>, chosen |-> <<>>,
     olds |-> <<>>, news |-> <<>>, trail |-> <<>>, text |-> <<>>,
     oracle |-> <<>>, raised |-> FALSE]

\* max_words as the source sets it: the default and the registry's presets
WordCounts == {1, 2}

\* (max_perturbs, length_of_word_to_perturb) as the source sets them: the
\* registry's preset, the classes' defaults and the quick tests
CharPresets == {<<2, 1>>, <<1, 2>>, <<1, 1>>}

\* the constructor arguments of the character-level attackers
CharAttackers ==
    {[max_words |-> mw, max_perturbs |-> p[1], threshold |-> p[2], pos_tag |-> tag] :
        mw \in WordCounts, p \in CharPresets, tag \in PosTags}

\* the constructor arguments of the attackers that take no length or count
WordAttackers ==
    [max_words : WordCounts, max_perturbs : {0}, threshold : {0},
     pos_tag : PosTags]

\* what the body of apply_on_sample computed
Outcome(targets, chosen, olds, news, trail, text, raised) ==
    [targets |-> targets, chosen |-> chosen, olds |-> olds, news |-> news,
     trail |-> trail, text |-> text, oracle |-> <<>>, raised |-> raised]

\* the end of apply_on_sample: the result stored under the attack's key and
\* the sample returned; an exception leaves the sample as it was
Stored(name, field, suffix, a, lex, out) ==
    /\ call' = [attack |-> name, field |-> field,
                key |-> PerturbedKey(field, suffix),
                max_words |-> a.max_words, max_perturbs |-> a.max_perturbs,
                threshold |-> a.threshold, pos_tag |-> a.pos_tag,
                lex |-> lex, raw |-> sample[Key(field)],
                targets |-> out.targets, chosen |-> out.chosen,
                olds |-> out.olds, news |-> out.news, trail |-> out.trail,
                text |-> out.text, oracle |-> out.oracle,
                raised |-> out.raised]
    /\ sample' = IF out.raised THEN sample
                 ELSE Put(sample, PerturbedKey(field, suffix), out.text)
    /\ left' = left - 1
    /\ UNCHANGED <<enc, toks>>
    /\ UNCHANGED <<wordVars, driverVars, scoreVars, lexVars>>

\* the same for a call that is not followed pass by pass
Return(name, field, suffix, a, lex, out) ==
    /\ Stored(name, field, suffix, a, lex, out)
    /\ UNCHANGED loop

----------------------------------------------------------------------------
(* Character-level attacks: select, transform, reinsert *)

\* one way the loop over words_to_perturb can go: r[j] is the core function's
\* run on the j-th word; the first run that raises ends the call
CharOutcome(raw, targets, chosen, olds, r) ==
    LET bad   == {j \in 1 .. Len(r) : r[j].raised}
        stop  == IF bad = {} THEN Len(r)
                 ELSE (CHOOSE j \in bad : \A m \in bad : j <= m) - 1
        news  == [j \in 1 .. stop |-> r[j].word]
        trail == Trail(raw, SubSeq(olds, 1, stop), news)
    IN  Outcome(targets, chosen, olds, news, trail, Last(trail, raw), bad # {})

\* steps 3 and 4 of a character-level apply_on_sample, word_runs[w] being the
\* core function's possible runs on the surface w
CharOutcomes(raw, ts, targets, mw, word_runs) ==
    LET n == Len(targets)
        k == SampleSize(mw, n)
    IN  IF k > n
        THEN {Outcome(targets, <<>>, <<>>, <<>>, <<>>, raw, TRUE)}
        ELSE UNION {
               LET chosen == [j \in 1 .. k |-> targets[c[j]]]
                   olds   == [j \in 1 .. k |-> ts[chosen[j]].surface]
                   runs   == [j \in 1 .. k |-> word_runs[olds[j]]]
                   all    == UNION {runs[j] : j \in 1 .. k}
               IN  {CharOutcome(raw, targets, chosen, olds, r) :
                      r \in {q \in [1 .. k -> all] :
                               \A j \in 1 .. k : q[j] \in runs[j]}}
               : c \in Samples(n, k)}

\* "if not target_tokens: words_to_perturb = []" before the sampling
\* (RepeatChar, the one-character katakana conversion)
GuardedCharOutcomes(raw, ts, targets, mw, word_runs) ==
    IF targets = <<>>
    THEN {Outcome(targets, <<>>, <<>>, <<>>, <<>>, raw, FALSE)}
    ELSE CharOutcomes(raw, ts, targets, mw, word_runs)

\* the surfaces of a token list
SurfaceSet(ts) == {ts[i].surface : i \in 1 .. Len(ts)}

\* the core function's result as the loop sees it
AsRun(w) == [word |-> w, raised |-> FALSE]

\* step 2 with str(token.feature).split(',')[0] and the strict length test
TargetsByCommaLonger(ts, e, a) ==
    InOrder({i \in 1 .. Len(ts) :
        LET pos == PosByComma(Feature(ts[i], e))
        IN  /\ ~InList(pos, ExcludedPos)
            /\ PosTagMatches(pos, a.pos_tag)
            /\ Len(ts[i].surface) > a.threshold})

\* DeleteChar.apply_on_sample
DeleteCharTargets(ts, e, a) == TargetsByCommaLonger(ts, e, a)

DeleteCharRuns(w, a) ==
    {[word |-> r.word, raised |-> r.raised] :
        r \in DeletionRuns(w, a.max_perturbs, a.threshold)}

ApplyDeleteChar ==
    /\ left > 0
    /\ \E field \in DataFields, a \in CharAttackers :
         LET word_runs == [w \in SurfaceSet(toks[field]) |->
                              DeleteCharRuns(w, a)]
         IN  \E out \in CharOutcomes(sample[Key(field)], toks[field],
                                     DeleteCharTargets(toks[field], enc, a),
                                     a.max_words, word_runs) :
                 Return("delete_char", field, "DCR", a, NoLexicon, out)

\* "あいうえお...わをん", the pool of InsertChar and ReplaceChar, by one of
\* its characters
HiraganaPool == {"n"}

\* new_word[:idx] + chosen_chara + new_word[idx:]
InsertAt(w, idx, c) == Slice(w, 0, idx) \o <<c>> \o SliceFrom(w, idx)

RECURSIVE InsertionResults(_, _, _)
\* InsertChar.execute_insertion
InsertionResults(w, n, th) ==
    IF n = 0 \/ ~(Len(w) >= th) THEN {w}
    ELSE UNION {InsertionResults(InsertAt(w, i, c), n - 1, th) :
                   i \in RandRange(0, Len(w) + 1), c \in HiraganaPool}

\* InsertChar.apply_on_sample, step 2: the length test is >=
InsertCharTargets(ts, e, a) ==
    InOrder({i \in 1 .. Len(ts) :
        LET pos == PosByComma(Feature(ts[i], e))
        IN  /\ ~InList(pos, ExcludedPos)
            /\ PosTagMatches(pos, a.pos_tag)
            /\ Len(ts[i].surface) >= a.threshold})

ApplyInsertChar ==
    /\ left > 0
    /\ \E field \in DataFields, a \in CharAttackers :
         LET word_runs == [w \in SurfaceSet(toks[field]) |->
                              {AsRun(v) : v \in InsertionResults(w, a.max_perturbs, a.threshold)}]
         IN  \E out \in CharOutcomes(sample[Key(field)], toks[field],
                                     InsertCharTargets(toks[field], enc, a),
                                     a.max_words, word_runs) :
                 Return("insert_char", field, "ICR", a, NoLexicon, out)

\* new_word[:idx] + chosen_chara + new_word[idx + 1:]
ReplaceAt(w, idx, c) == Slice(w, 0, idx) \o <<c>> \o SliceFrom(w, idx + 1)

RECURSIVE ReplacementResults(_, _, _)
\* ReplaceChar.execute_replacement
ReplacementResults(w, n, th) ==
    IF n = 0 \/ ~(Len(w) > th) THEN {w}
    ELSE UNION {ReplacementResults(ReplaceAt(w, i, c), n - 1, th) :
                   i \in RandRange(0, Len(w)), c \in HiraganaPool}

ReplaceCharTargets(ts, e, a) == TargetsByCommaLonger(ts, e, a)

ApplyReplaceChar ==
    /\ left > 0
    /\ \E field \in DataFields, a \in CharAttackers :
         LET word_runs == [w \in SurfaceSet(toks[field]) |->
                              {AsRun(v) : v \in ReplacementResults(w, a.max_perturbs, a.threshold)}]
         IN  \E out \in CharOutcomes(sample[Key(field)], toks[field],
                                     ReplaceCharTargets(toks[field], enc, a),
                                     a.max_words, word_runs) :
                 Return("replace_char", field, "RCR", a, NoLexicon, out)

SwapCharTargets(ts, e, a) == TargetsByCommaLonger(ts, e, a)

\* SwapChar.apply_on_sample (the class is not in ATTACK_REGISTRY)
ApplySwapChar ==
    /\ left > 0
    /\ \E field \in DataFields, a \in CharAttackers :
         LET word_runs == [w \in SurfaceSet(toks[field]) |->
                              {AsRun(r.word) : r \in SwapRuns(w, a.max_perturbs, a.threshold)}]
         IN  \E out \in CharOutcomes(sample[Key(field)], toks[field],
                                     SwapCharTargets(toks[field], enc, a),
                                     a.max_words, word_runs) :
                 Return("swap_char", field, "SCR", a, NoLexicon, out)

\* new_word[:idx] + char_to_repeat + new_word[idx:]
RepeatAt(w, idx) == Slice(w, 0, idx) \o <<w[idx + 1]>> \o SliceFrom(w, idx)

RECURSIVE RepetitionResults(_, _, _)
\* RepeatChar.execute_repetition: only a hiragana character is repeated
RepetitionResults(w, n, th) ==
    LET hiragana_indices == {i \in 0 .. Len(w) - 1 : w[i + 1] \in Hiragana}
    IN  IF n = 0 \/ ~(Len(w) >= th) \/ hiragana_indices = {} THEN {w}
        ELSE UNION {RepetitionResults(RepeatAt(w, i), n - 1, th) :
                       i \in hiragana_indices}

\* RepeatChar.apply_on_sample, step 2: pos1= first, >=, hiragana required
RepeatCharTargets(ts, e, a) ==
    InOrder({i \in 1 .. Len(ts) :
        LET pos == PosByAttribute(Feature(ts[i], e))
        IN  /\ ~InList(pos, ExcludedPos)
            /\ PosTagMatches(pos, a.pos_tag)
            /\ Len(ts[i].surface) >= a.threshold
            /\ HasCharOf(ts[i].surface, Hiragana)})

ApplyRepeatChar ==
    /\ left > 0
    /\ \E field \in DataFields, a \in CharAttackers :
         LET word_runs == [w \in SurfaceSet(toks[field]) |->
                              {AsRun(v) : v \in RepetitionResults(w, a.max_perturbs, a.threshold)}]
         IN  \E out \in GuardedCharOutcomes(sample[Key(field)], toks[field],
                                     RepeatCharTargets(toks[field], enc, a),
                                     a.max_words, word_runs) :
                 Return("repeat_char", field, "RCR", a, NoLexicon, out)

\* KatakanaToHiragana.execute_conversion (one character)
ConversionResults(w) ==
    LET katakana_indices == {i \in 0 .. Len(w) - 1 : w[i + 1] \in Katakana}
    IN  IF katakana_indices = {} THEN {w}
        ELSE {ReplaceAt(w, i, Kata2HiraChar(w[i + 1])) : i \in katakana_indices}

\* the target loop of both katakana conversions: pos1= first, the short
\* exclusion list, katakana required
KatakanaTargets(ts, e, a) ==
    InOrder({i \in 1 .. Len(ts) :
        LET pos == PosByAttribute(Feature(ts[i], e))
        IN  /\ ~InList(pos, ExcludedPosK2H)
            /\ PosTagMatches(pos, a.pos_tag)
            /\ HasCharOf(ts[i].surface, Katakana)})

\* char_perturb KatakanaToHiragana.apply_on_sample
ApplyKata2HiraChar ==
    /\ left > 0
    /\ \E field \in DataFields, a \in WordAttackers :
         LET word_runs == [w \in SurfaceSet(toks[field]) |->
                              {AsRun(v) : v \in ConversionResults(w)}]
         IN  \E out \in GuardedCharOutcomes(sample[Key(field)], toks[field],
                                     KatakanaTargets(toks[field], enc, a),
                                     a.max_words, word_runs) :
                 Return("kata2hira_char", field, "K2H", a, NoLexicon, out)

----------------------------------------------------------------------------
(* Word-level attacks: the token list is edited by index and joined *)

\* the target loop shared by DeleteWord, RepeatWord, SwapWord and
\* SynonymReplace: pos1= first, the five excluded categories, pos_tag
WordTargets(ts, e, a) ==
    InOrder({i \in 1 .. Len(ts) :
        LET pos == PosByAttribute(Feature(ts[i], e))
        IN  ~InList(pos, ExcludedPos) /\ PosTagMatches(pos, a.pos_tag)})

\* the token indices drawn by random.sample(target_indices, k)
Drawn(targets, c) == [j \in 1 .. Len(c) |-> targets[c[j]]]

\* the drawn indices in ascending order
Ascending(q) ==
    LET S == {q[j] : j \in 1 .. Len(q)}
    IN  CHOOSE d \in [1 .. Cardinality(S) -> S] :
            \A i, j \in 1 .. Cardinality(S) : i < j => d[i] < d[j]

\* indices_to_perturb.sort(reverse=True)
Descending(q) ==
    LET S == {q[j] : j \in 1 .. Len(q)}
    IN  CHOOSE d \in [1 .. Cardinality(S) -> S] :
            \A i, j \in 1 .. Cardinality(S) : i < j => d[i] > d[j]

\* word_list.pop(idx), idx a 1-based token index
Pop(ws, idx) == SubSeq(ws, 1, idx - 1) \o SubSeq(ws, idx + 1, Len(ws))

RECURSIVE PopAll(_, _)
\* for idx in indices_to_perturb: word_list.pop(idx)
PopAll(ws, idxs) ==
    IF idxs = <<>> THEN ws ELSE PopAll(Pop(ws, Head(idxs)), Tail(idxs))

\* word_list.insert(idx, word_list[idx])
InsertCopy(ws, idx) == SubSeq(ws, 1, idx) \o SubSeq(ws, idx, Len(ws))

RECURSIVE InsertAll(_, _)
InsertAll(ws, idxs) ==
    IF idxs = <<>> THEN ws ELSE InsertAll(InsertCopy(ws, Head(idxs)), Tail(idxs))

\* the surfaces at the given token indices
At(ws, idxs) == [j \in 1 .. Len(idxs) |-> ws[idxs[j]]]

\* random.sample(target_indices, k) followed by sort(reverse=True): the
\* index lists that can result
SortedDraws(targets, k) ==
    {Descending(Drawn(targets, c)) : c \in Samples(Len(targets), k)}

\* DeleteWord.apply_on_sample
ApplyDeleteWord ==
    /\ left > 0
    /\ \E field \in DataFields, a \in WordAttackers :
         LET ts      == toks[field]
             raw     == sample[Key(field)]
             targets == WordTargets(ts, enc, a)
             k       == SampleSize(a.max_words, Len(targets))
         IN  \E out \in
                 (IF targets = <<>>
                  THEN {Outcome(targets, <<>>, <<>>, <<>>, <<>>, raw, FALSE)}
                  ELSE IF k > Len(targets)
                  THEN {Outcome(targets, <<>>, <<>>, <<>>, <<>>, raw, TRUE)}
                  ELSE {Outcome(targets, chosen, At(Surfaces(ts), chosen), <<>>,
                                <<>>, Join(PopAll(Surfaces(ts), chosen)), FALSE)
                        : chosen \in SortedDraws(targets, k)}) :
                 Return("delete_word", field, "DWR", a, NoLexicon, out)

\* RepeatWord.apply_on_sample
ApplyRepeatWord ==
    /\ left > 0
    /\ \E field \in DataFields, a \in WordAttackers :
         LET ts      == toks[field]
             raw     == sample[Key(field)]
             targets == WordTargets(ts, enc, a)
             k       == SampleSize(a.max_words, Len(targets))
         IN  \E out \in
                 (IF targets = <<>>
                  THEN {Outcome(targets, <<>>, <<>>, <<>>, <<>>, raw, FALSE)}
                  ELSE IF k > Len(targets)
                  THEN {Outcome(targets, <<>>, <<>>, <<>>, <<>>, raw, TRUE)}
                  ELSE {Outcome(targets, chosen, At(Surfaces(ts), chosen), <<>>,
                                <<>>, Join(InsertAll(Surfaces(ts), chosen)), FALSE)
                        : chosen \in SortedDraws(targets, k)}) :
                 Return("repeat_word", field, "RWR", a, NoLexicon, out)

\* word_list[idx1], word_list[idx2] = word_list[idx2], word_list[idx1]
SwapWords(ws, i, j) ==
    [m \in 1 .. Len(ws) |-> IF m = i THEN ws[j] ELSE IF m = j THEN ws[i] ELSE ws[m]]

\* a pool that keeps the index it is asked to remove
KeepInPool(pool, idx) == pool

\* target_indices_pool.remove(idx)
Remove(pool, idx) == SelectSeq(pool, LAMBDA v : v # idx)

\* a loop that goes on while the pool holds a pair, whatever the count
ContinuesWhilePairs(swap_count, max_words, pool) == Len(pool) >= 2

\* while swap_count < self.max_words and len(target_indices_pool) >= 2
Continues(swap_count, max_words, pool) ==
    swap_count < max_words /\ Len(pool) >= 2

RECURSIVE SwapWordRuns(_, _, _, _)
\* the while loop of SwapWord: the word list and the pairs swapped, in order
SwapWordRuns(ws, pool, swap_count, mw) ==
    IF ~Continues(swap_count, mw, pool)
    THEN {[words |-> ws, pairs |-> <<>>]}
    ELSE UNION {
           LET idx1 == pool[c[1]]
               idx2 == pool[c[2]]
           IN  {[r EXCEPT !.pairs = <<idx1, idx2>> \o r.pairs] :
                   r \in SwapWordRuns(SwapWords(ws, idx1, idx2),
                                      Remove(Remove(pool, idx1), idx2),
                                      swap_count + 1, mw)}
           : c \in Samples(Len(pool), 2)}

\* SwapWord.apply_on_sample; chosen lists the swapped indices pair by pair
ApplySwapWord ==
    /\ left > 0
    /\ \E field \in DataFields, a \in WordAttackers :
         LET ts      == toks[field]
             raw     == sample[Key(field)]
             targets == WordTargets(ts, enc, a)
         IN  \E out \in
                 (IF Len(targets) < 2
                  THEN {Outcome(targets, <<>>, <<>>, <<>>, <<>>, raw, FALSE)}
                  ELSE {Outcome(targets, r.pairs, At(Surfaces(ts), r.pairs), <<>>,
                                <<>>, Join(r.words), FALSE) :
                          r \in SwapWordRuns(Surfaces(ts), targets, 0, a.max_words)}) :
                 Return("swap_word", field, "SWR", a, NoLexicon, out)

RECURSIVE ConvertAll(_, _)
\* for idx in indices_to_perturb: word_list[idx] = jaconv.kata2hira(word_list[idx])
ConvertAll(ws, idxs) ==
    IF idxs = <<>> THEN ws
    ELSE ConvertAll([ws EXCEPT ![Head(idxs)] = Kata2Hira(ws[Head(idxs)])], Tail(idxs))

\* word_perturb KatakanaToHiragana.apply_on_sample (the indices are not sorted)
ApplyKata2HiraWord ==
    /\ left > 0
    /\ \E field \in DataFields, a \in WordAttackers :
         LET ts      == toks[field]
             raw     == sample[Key(field)]
             targets == KatakanaTargets(ts, enc, a)
             k       == SampleSize(a.max_words, Len(targets))
         IN  \E out \in
                 (IF targets = <<>>
                  THEN {Outcome(targets, <<>>, <<>>, <<>>, <<>>, raw, FALSE)}
                  ELSE IF k > Len(targets)
                  THEN {Outcome(targets, <<>>, <<>>, <<>>, <<>>, raw, TRUE)}
                  ELSE {LET chosen == Drawn(targets, c)
                            ws     == ConvertAll(Surfaces(ts), chosen)
                        IN  Outcome(targets, chosen, At(Surfaces(ts), chosen),
                                    At(ws, chosen), <<>>, Join(ws), FALSE)
                        : c \in Samples(Len(targets), k)}) :
                 Return("kata2hira_word", field, "K2H", a, NoLexicon, out)

----------------------------------------------------------------------------
(* HomophoneError *)

\* the characters str.strip() removes
Whitespace == {" ", "\n"}

RECURSIVE Split(_, _)
\* s.split(sep) for a separator of one character
Split(s, sep) ==
    IF \A i \in 1 .. Len(s) : s[i] # sep THEN <<s>>
    ELSE LET i == CHOOSE i \in 1 .. Len(s) :
                     s[i] = sep /\ \A j \in 1 .. i - 1 : s[j] # sep
         IN  <<SubSeq(s, 1, i - 1)>> \o Split(SubSeq(s, i + 1, Len(s)), sep)

RECURSIVE Strip(_)
\* s.strip()
Strip(s) ==
    IF s # <<>> /\ s[1] \in Whitespace THEN Strip(Tail(s))
    ELSE IF s # <<>> /\ s[Len(s)] \in Whitespace THEN Strip(SubSeq(s, 1, Len(s) - 1))
    ELSE s

\* line.startswith(';;')
IsComment(line) == Len(line) >= 2 /\ line[1] = ";" /\ line[2] = ";"

\* clean_candidates: the fields between the slashes, each cut at its first
\* semicolon, the empty ones dropped
CleanCandidates(candidates_raw) ==
    LET candidates == SelectSeq(Split(candidates_raw, "/"), LAMBDA c : c # <<>>)
        words      == [m \in 1 .. Len(candidates) |-> Split(candidates[m], ";")[1]]
    IN  SelectSeq(words, LAMBDA w : w # <<>>)

\* the body of "for line in f"
ParseLine(skk_map, line) ==
    LET parts == Split(Strip(line), " ")
    IN  IF IsComment(line) \/ Len(parts) < 2 THEN skk_map
        ELSE Put(skk_map, parts[1], CleanCandidates(parts[2]))

RECURSIVE ParseLines(_, _)
\* skk_map after the loop over the lines of the file
ParseLines(skk_map, lines) ==
    IF lines = <<>> THEN skk_map
    ELSE ParseLines(ParseLine(skk_map, Head(lines)), Tail(lines))

\* the map built so far handed back although reading raised
ReadDictKeepingPart(lines, read) == ParseLines(NoLexicon, lines)

\* step 2 of _load_skk_dict: an exception while reading returns {}
ReadDict(lines, read) ==
    IF read = "raises" THEN NoLexicon ELSE ParseLines(NoLexicon, lines)

\* the dictionary as the server holds it: a comment, an entry of two words,
\* an entry whose two candidates differ in their annotation only, and a
\* line without candidates
DictionaryLines ==
    << <<";", ";", " ", "o", "k", "\n">>,
       <<"k", " ", "/", "x", "y", ";", "n", "/", "y", "x", "/", "\n">>,
       <<"k", "k", " ", "/", "x", ";", "a", "/", "x", ";", "b", "/", "\n">>,
       <<"y", "\n">> >>

\* the body of the server's answer when it does not serve the file
ErrorPage == << <<"4", "0", "4", ":", " ", "N", "o", "t", " ", "F", "o", "u", "n", "d">> >>

NoResponse == [raised |-> FALSE, status_code |-> 0, lines |-> <<>>]

\* requests.get(url): it raises, or returns a response whatever its status
Responses ==
    { [raised |-> TRUE,  status_code |-> 0,   lines |-> <<>>],
      [raised |-> FALSE, status_code |-> 200, lines |-> DictionaryLines],
      [raised |-> FALSE, status_code |-> 404, lines |-> ErrorPage] }

\* open(dict_path, 'w') and f.write(content): both succeed, open raises, or
\* write raises once open has created the file
WriteKinds == {"ok", "open_raises", "write_raises"}

\* reading the file succeeds or raises
ReadKinds == {"ok", "raises"}

NoFile == [exists |-> FALSE, lines |-> <<>>]

\* _load_skk_dict: what it leaves at dict_path and what it returns
LoadSkkDict(file, response, write, read) ==
    LET download == ~file.exists
        saved ==
            IF ~download THEN [file |-> file, returned |-> FALSE]
            ELSE IF response.raised \/ write = "open_raises"
            THEN [file |-> file, returned |-> TRUE]
            ELSE IF write = "write_raises"
            THEN [file |-> [exists |-> TRUE, lines |-> <<>>], returned |-> TRUE]
            ELSE [file |-> [exists |-> TRUE, lines |-> response.lines],
                  returned |-> FALSE]
    IN  [existed  |-> file.exists,
         fetched  |-> download,
         response |-> IF download THEN response ELSE NoResponse,
         write    |-> IF download /\ ~response.raised THEN write ELSE "none",
         read     |-> IF saved.returned THEN "none" ELSE read,
         file     |-> saved.file,
         raised   |-> FALSE,
         skk_dict |-> IF saved.returned THEN NoLexicon
                      ELSE ReadDict(saved.file.lines, read)]

\* self.skk_dict: reading (hiragana) -> candidate words, as _load_skk_dict
\* can return it; LexiconA holds an entry of two equal candidates
LexiconA ==
    (<<"k">> :> << <<"x", "y">>, <<"y", "x">> >>) @@
    (<<"k", "k">> :> << <<"x">>, <<"x">> >>)

LexiconB ==
    (<<"k">> :> << <<"y">>, <<"y", "y">>, <<"x", "y">> >>) @@
    (<<"k", "k">> :> << <<"x">> >>)

Lexicons == {NoLexicon, LexiconA, LexiconB}

\* yomi_hiragana of a token, <<>> when the feature string holds no reading
Yomi(tok, e) == Kata2Hira(ReadingOf(Feature(tok, e)))

\* step 1 of HomophoneError.apply_on_sample
HomophoneTargets(ts, e, a, lex) ==
    InOrder({i \in 1 .. Len(ts) :
        LET f   == Feature(ts[i], e)
            pos == PosByAttribute(f)
        IN  /\ ReadingOf(f) # <<>>
            /\ ~InList(pos, ExcludedPos)
            /\ PosTagMatches(pos, a.pos_tag)
            /\ Yomi(ts[i], e) \in DOMAIN lex
            /\ Len(lex[Yomi(ts[i], e)]) > 1})

\* the candidate list taken as it is
ValidCandidatesUnfiltered(candidates, original_word) == candidates

\* [c for c in candidates if c != original_word]
ValidCandidates(candidates, original_word) ==
    SelectSeq(candidates, LAMBDA c : c # original_word)

\* the words random.choice(valid_candidates) may write at idx; the token's
\* own surface when valid_candidates is empty
HomophoneChoices(tok, e, lex) ==
    LET valid == ValidCandidates(lex[Yomi(tok, e)], tok.surface)
    IN  IF valid = <<>> THEN {tok.surface} ELSE {valid[m] : m \in 1 .. Len(valid)}

\* word_list with word_list[idxs[j]] = news[j]
Written(ws, idxs, news) ==
    [m \in 1 .. Len(ws) |->
        IF \E j \in 1 .. Len(idxs) : idxs[j] = m
        THEN news[CHOOSE j \in 1 .. Len(idxs) : idxs[j] = m]
        ELSE ws[m]]

\* HomophoneError.apply_on_sample of an instance whose skk_dict is lex
HomophoneErrorCall(lex) ==
    /\ left > 0
    /\ \E field \in DataFields, a \in WordAttackers :
         LET ts      == toks[field]
             raw     == sample[Key(field)]
             targets == HomophoneTargets(ts, enc, a, lex)
             k       == SampleSize(a.max_words, Len(targets))
         IN  \E out \in
                 (IF targets = <<>>
                  THEN {Outcome(targets, <<>>, <<>>, <<>>, <<>>, raw, FALSE)}
                  ELSE IF k > Len(targets)
                  THEN {Outcome(targets, <<>>, <<>>, <<>>, <<>>, raw, TRUE)}
                  ELSE UNION {
                         LET chosen == Descending(Drawn(targets, c))
                             all    == UNION {HomophoneChoices(ts[chosen[j]], enc, lex) :
                                                j \in 1 .. k}
                         IN  {Outcome(targets, chosen, At(Surfaces(ts), chosen), news,
                                      <<>>, Join(Written(Surfaces(ts), chosen, news)),
                                      FALSE) :
                                news \in {q \in [1 .. k -> all] :
                                            \A j \in 1 .. k :
                                               q[j] \in HomophoneChoices(ts[chosen[j]], enc, lex)}}
                         : c \in Samples(Len(targets), k)}) :
                 Return("homophone_error", field, "HOM", a, lex, out)

\* a call on an instance with one of the lexicons
ApplyHomophoneError == \E lex \in Lexicons : HomophoneErrorCall(lex)

----------------------------------------------------------------------------
(* SynonymReplace *)

\* self.fill_mask.tokenizer.mask_token
MaskToken == <<"[MASK]">>

\* cand['token_str'].replace(' ', '')
StripSpaces(w) == SelectSeq(w, LAMBDA c : c # " ")

\* what self.fill_mask(masked_text) may do: raise, or return ranked candidates
MlmAnswers ==
    { [raised |-> TRUE,  cands |-> <<>>],
      [raised |-> FALSE, cands |-> << <<"x", "y">>, <<"y", " ", "y">> >>],
      [raised |-> FALSE, cands |-> << MaskToken, <<"x">> >>],
      [raised |-> FALSE, cands |-> << <<" ">>, <<"y">> >>] }

\* the loop over candidates: the first one, spaces removed, that is neither
\* the original word nor the mask token; <<>> stands for None
BestCandidate(cands, original_word) ==
    LET ok == {m \in 1 .. Len(cands) :
                  /\ StripSpaces(cands[m]) # original_word
                  /\ StripSpaces(cands[m]) # MaskToken}
    IN  IF ok = {} THEN <<>>
        ELSE StripSpaces(cands[CHOOSE m \in ok : \A m2 \in ok : m <= m2])

\* current_tokens[idx] after the try block: "if best_candidate:" is false for
\* None and for the empty string, and an exception changes nothing
SynonymFor(answer, original_word) ==
    IF answer.raised \/ BestCandidate(answer.cands, original_word) = <<>>
    THEN original_word
    ELSE BestCandidate(answer.cands, original_word)

\* SynonymReplace.apply_on_sample
ApplySynonymReplace ==
    /\ left > 0
    /\ \E field \in DataFields, a \in WordAttackers :
         LET ts      == toks[field]
             raw     == sample[Key(field)]
             targets == WordTargets(ts, enc, a)
             k       == SampleSize(a.max_words, Len(targets))
         IN  \E out \in
                 (IF targets = <<>>
                  THEN {Outcome(targets, <<>>, <<>>, <<>>, <<>>, raw, FALSE)}
                  ELSE IF k > Len(targets)
                  THEN {Outcome(targets, <<>>, <<>>, <<>>, <<>>, raw, TRUE)}
                  ELSE UNION {
                         LET chosen == Drawn(targets, c)
                             olds   == At(Surfaces(ts), chosen)
                         IN  {LET news == [j \in 1 .. k |-> SynonymFor(answers[j], olds[j])]
                              IN  [Outcome(targets, chosen, olds, news, <<>>,
                                           Join(Written(Surfaces(ts), chosen, news)),
                                           FALSE)
                                     EXCEPT !.oracle = answers]
                              : answers \in [1 .. k -> MlmAnswers]}
                         : c \in Samples(Len(targets), k)}) :
                 Return("synonym_replace", field, "SR", a, NoLexicon, out)

----------------------------------------------------------------------------
(* BackTranslation *)

\* what a translation pipeline may do: raise, or return a text
Translations ==
    { [raised |-> TRUE,  text |-> <<>>],
      [raised |-> FALSE, text |-> <<"y", "x">>],
      [raised |-> FALSE, text |-> <<"x">>] }

NoAttacker == [max_words |-> 0, max_perturbs |-> 0, threshold |-> 0, pos_tag |-> "None"]

\* the text of the pipeline called last, whether or not a call raised
LastTranslation(raw_text, translations) == translations[Len(translations)].text

\* perturbed_text: back_translated_ja, or raw_text from the except branch
PerturbedText(raw_text, translations) ==
    IF \E k \in 1 .. Len(translations) : translations[k].raised THEN raw_text
    ELSE translations[Len(translations)].text

\* BackTranslation.apply_on_sample: the second pipeline is called only when
\* the first returned
ApplyBackTranslation ==
    /\ left > 0
    /\ \E field \in DataFields, ja_en \in Translations :
         LET raw == sample[Key(field)]
         IN  IF ja_en.raised
             THEN Return("back_translation", field, "BT", NoAttacker, NoLexicon,
                         [Outcome(<<>>, <<>>, <<>>, <<>>, <<>>,
                                  PerturbedText(raw, <<ja_en>>), FALSE)
                            EXCEPT !.oracle = <<ja_en>>])
             ELSE \E en_ja \in Translations :
                    Return("back_translation", field, "BT", NoAttacker, NoLexicon,
                           [Outcome(<<>>, <<>>, <<>>, <<>>, <<>>,
                                    PerturbedText(raw, <<ja_en, en_ja>>), FALSE)
                              EXCEPT !.oracle = <<ja_en, en_ja>>])

----------------------------------------------------------------------------
(* A sample and the calls of apply_on_sample on it *)

\* the tokens of the context field
ContextTokens == << [surface |-> <<"K", "y">>, pos |-> PosNoun, kana |-> <<"K">>] >>

\* the sample as the dataset holds it
FreshSample(ts) ==
    (Key("id") :> <<"0">>) @@
    (Key("question") :> Join(Surfaces(ts["question"]))) @@
    (Key("context") :> Join(Surfaces(ts["context"]))) @@
    (Key("answers") :> <<"answers">>)

InitSample(sentences, n) ==
    /\ enc \in {"csv", "attr"}
    /\ toks \in [question : sentences, context : {ContextTokens}]
    /\ sample = FreshSample(toks)
    /\ call = NoCall
    /\ left = n
    /\ fn = "off" /\ word = <<>> /\ cfg = [max_perturbs |-> 0, length_of_word_to_perturb |-> 0]
    /\ run = NoRun
    /\ IdleDriver
    /\ IdleScore
    /\ IdleLexicon
    /\ IdleLoop

\* one call of one attack on a sample of the dataset
InitAttack == InitSample(Sentences, 1)

NextAttack ==
    \/ ApplyDeleteChar
    \/ ApplyInsertChar
    \/ ApplyReplaceChar
    \/ ApplySwapChar
    \/ ApplyRepeatChar
    \/ ApplyKata2HiraChar
    \/ ApplyDeleteWord
    \/ ApplyRepeatWord
    \/ ApplySwapWord
    \/ ApplyKata2HiraWord
    \/ ApplyHomophoneError
    \/ ApplySynonymReplace
    \/ ApplyBackTranslation

SpecAttack == InitAttack /\ [][NextAttack]_vars

----------------------------------------------------------------------------
(* Properties of one call of apply_on_sample *)

\* the tokens of the field the call worked on
CallTokens == toks[call.field]

\* the attacks that select target tokens
SelectingAttacks ==
    {"delete_char", "insert_char", "replace_char", "swap_char", "repeat_char",
     "kata2hira_char", "delete_word", "repeat_word", "swap_word",
     "kata2hira_word", "homophone_error", "synonym_replace"}

\* the attacks that transform a word and put it back with str.replace
CharAttacks ==
    {"delete_char", "insert_char", "replace_char", "swap_char", "repeat_char",
     "kata2hira_char"}

(* C1: in the target selection of every attack class, a token whose        *)
(* category is particle, auxiliary verb, symbol, BOS/EOS or whitespace is  *)
(* never put in the eligible-target list, so it is never selected.         *)
C1_ExcludedNeverTargeted ==
    call.attack \in SelectingAttacks =>
        \A j \in 1 .. Len(call.targets) :
            CallTokens[call.targets[j]].pos \notin ExcludedPos

(* C2: when the target selection finds no eligible token (for swap_word,   *)
(* fewer than two), apply_on_sample does not raise and the perturbed field *)
(* is exactly the original text of the data field.                         *)
NothingEligible ==
    IF call.attack = "swap_word" THEN Len(call.targets) < 2
    ELSE call.targets = <<>>

C2_NoTargetsLeavesText ==
    (call.attack \in SelectingAttacks /\ NothingEligible) =>
        /\ ~call.raised
        /\ call.key \in DOMAIN sample
        /\ sample[call.key] = call.raw
        /\ call.raw = Join(Surfaces(CallTokens))

C2_Witness ==
    /\ call.attack = "delete_char"
    /\ call.targets = <<>>
    /\ Len(CallTokens) > 0
    /\ sample[call.key] = call.raw

(* C7: reinsertion in the character-level attacks.                          *)
\* text with the len(old) characters from 0-based position p replaced by new
ReplaceAtPos(text, p, old, new) ==
    SubSeq(text, 1, p) \o new \o SubSeq(text, p + Len(old) + 1, Len(text))

\* old occurs in text at 0-based position p and nowhere before p
FirstAt(text, old, p) ==
    /\ p \in 0 .. Len(text) - Len(old)
    /\ SubSeq(text, p + 1, p + Len(old)) = old
    /\ \A q \in 0 .. p - 1 : SubSeq(text, q + 1, q + Len(old)) # old

Occurs(text, old) == \E p \in 0 .. Len(text) - Len(old) : FirstAt(text, old, p)

\* the original surface of the j-th chosen token
ChosenSurface(j) == CallTokens[call.chosen[j]].surface

\* the position of the first occurrence of the j-th chosen surface in the
\* original text
OriginalPos(j) == CHOOSE p \in 0 .. Len(call.raw) : FirstAt(call.raw, ChosenSurface(j), p)

\* the first occurrences in the original text do not overlap
OriginalOccurrencesApart ==
    \A i, j \in 1 .. Len(call.chosen) :
        i # j => \/ OriginalPos(i) + Len(ChosenSurface(i)) <= OriginalPos(j)
                 \/ OriginalPos(j) + Len(ChosenSurface(j)) <= OriginalPos(i)

RECURSIVE ReplacedInOriginal(_, _)
\* the original text with, for every j of S, the first occurrence of the j-th
\* chosen surface replaced by the j-th new surface (rightmost first)
ReplacedInOriginal(text, S) ==
    IF S = {} THEN text
    ELSE LET j == CHOOSE m \in S : \A n \in S : OriginalPos(n) <= OriginalPos(m)
         IN  ReplacedInOriginal(
                 ReplaceAtPos(text, OriginalPos(j), ChosenSurface(j), call.news[j]),
                 S \ {j})

(* C7 as stated: for every character-level attack and any number of chosen *)
(* tokens, the perturbed text is the original text in which, for each      *)
(* chosen token, the first occurrence of its original surface has been     *)
(* replaced by its new surface (read where those occurrences are apart).   *)
C7_FirstOccurrenceInOriginal ==
    (/\ call.attack \in CharAttacks
     /\ ~call.raised
     /\ OriginalOccurrencesApart) =>
        call.text = ReplacedInOriginal(call.raw, 1 .. Len(call.chosen))

\* perturbed_text before the j-th replacement
TextBefore(j) == IF j = 1 THEN call.raw ELSE call.trail[j - 1]

(* C7 amended: the chosen tokens are handled one after another in the      *)
(* order drawn; each step replaces the first occurrence of the token's     *)
(* original surface in the text as the earlier steps left it, and nothing  *)
(* when it no longer occurs there; the last text is the perturbed field.   *)
C7_FirstOccurrenceInRunningText ==
    (call.attack \in CharAttacks /\ ~call.raised) =>
        /\ Len(call.news) = Len(call.chosen)
        /\ Len(call.trail) = Len(call.chosen)
        /\ call.text = (IF call.chosen = <<>> THEN call.raw
                        ELSE call.trail[Len(call.trail)])
        /\ sample[call.key] = call.text
        /\ \A j \in 1 .. Len(call.chosen) :
              IF Occurs(TextBefore(j), ChosenSurface(j))
              THEN \E p \in 0 .. Len(TextBefore(j)) :
                      /\ FirstAt(TextBefore(j), ChosenSurface(j), p)
                      /\ call.trail[j] =
                            ReplaceAtPos(TextBefore(j), p, ChosenSurface(j), call.news[j])
              ELSE call.trail[j] = TextBefore(j)

C7_Witness ==
    /\ call.attack \in CharAttacks
    /\ ~call.raised
    /\ Len(call.chosen) = 2
    /\ call.trail[1] # call.raw
    /\ call.trail[2] # call.trail[1]
    /\ OriginalOccurrencesApart
    /\ call.text # ReplacedInOriginal(call.raw, 1 .. 2)

(* C10: in HomophoneError.apply_on_sample, for every selected token whose  *)
(* reading has at least two distinct candidate words in the lexicon, the   *)
(* surface written in place of the token is a candidate of that reading    *)
(* and differs from the token's original surface.                          *)
\* the candidates of the reading of the j-th chosen token
CandidatesOf(j) ==
    LET cands == call.lex[Yomi(CallTokens[call.chosen[j]], enc)]
    IN  {cands[m] : m \in 1 .. Len(cands)}

C10_HomophoneDiffersFromOriginal ==
    (call.attack = "homophone_error" /\ ~call.raised) =>
        /\ Len(call.news) = Len(call.chosen)
        /\ sample[call.key] =
              Join(Written(Surfaces(CallTokens), call.chosen, call.news))
        /\ \A j \in 1 .. Len(call.chosen) :
              Cardinality(CandidatesOf(j)) >= 2 =>
                  /\ call.news[j] \in CandidatesOf(j)
                  /\ call.news[j] # ChosenSurface(j)

C10_Witness ==
    /\ call.attack = "homophone_error"
    /\ \E j \in 1 .. Len(call.chosen) :
          /\ Cardinality(CandidatesOf(j)) >= 2
          /\ ChosenSurface(j) \in CandidatesOf(j)
          /\ call.news[j] # ChosenSurface(j)

(* C14: in BackTranslation.apply_on_sample, when the source-to-pivot call  *)
(* or the pivot-to-source call raises, no exception leaves apply_on_sample  *)
(* and the perturbed field is the original sentence unchanged; when both    *)
(* calls return, the perturbed field is the output of the second call.      *)
C14_TranslationFailureKeepsOriginal ==
    call.attack = "back_translation" =>
        LET failed == \E k \in 1 .. Len(call.oracle) : call.oracle[k].raised
        IN  /\ ~call.raised
            /\ call.key \in DOMAIN sample
            /\ failed => sample[call.key] = call.raw
            /\ ~failed => /\ Len(call.oracle) = 2
                          /\ sample[call.key] = call.oracle[2].text

\* the first pipeline returned, the second raised, on a sentence with text
C14_Witness ==
    /\ call.attack = "back_translation"
    /\ Len(call.oracle) = 2
    /\ ~call.oracle[1].raised /\ call.oracle[2].raised
    /\ call.raw # <<>>
    /\ sample[call.key] = call.raw

\* the instance get_attacker_instance builds for delete_char
RegistryDeleteChar ==
    /\ call.attack = "delete_char"
    /\ call.max_perturbs = 2 /\ call.threshold = 1
    /\ call.max_words = 1 /\ call.pos_tag = "None"

\* hiragana occurs in closed-class tokens only
HiraganaOnlyInParticles(ts) ==
    \A i \in 1 .. Len(ts) :
        HasCharOf(ts[i].surface, Hiragana) => ts[i].pos \in ExcludedPos

(* C15: delete_char with the registry preset, applied to a question in     *)
(* which no open-class token holds a hiragana character (hiragana occurs   *)
(* in particles only), leaves the perturbed field identical to the         *)
(* original question.                                                      *)
C15_NoHiraganaLeavesQuestion ==
    (RegistryDeleteChar /\ call.field = "question"
        /\ HiraganaOnlyInParticles(CallTokens)) =>
            /\ ~call.raised
            /\ call.key \in DOMAIN sample
            /\ sample[call.key] = call.raw

\* the attacks whose target loop reads str(token.feature).split(',')[0] only
CommaOnlyAttacks == {"delete_char", "insert_char", "replace_char", "swap_char"}

\* the category an attack's target loop reads from a feature string
CategoryRead(attack, f) ==
    IF attack \in CommaOnlyAttacks THEN PosByComma(f) ELSE PosByAttribute(f)

\* the character-level and word-level attacks the comparison is about
ComparedAttacks ==
    CommaOnlyAttacks \cup
    {"delete_word", "repeat_word", "swap_word", "kata2hira_word",
     "homophone_error", "synonym_replace"}

(* C16: every attack reads a token's coarse category from the pos1='...'   *)
(* attribute when the feature string has one and from the first comma      *)
(* field otherwise; so under either feature encoding the character-level   *)
(* attacks (delete, insert, replace, swap) and the word-level attacks read *)
(* the same category for a token and exclude the same closed-class tokens. *)
C16_SameCategoryUnderEitherEncoding ==
    call.attack \in ComparedAttacks =>
        /\ \A i \in 1 .. Len(CallTokens) :
              /\ CategoryRead(call.attack, Feature(CallTokens[i], enc))
                    = <<CallTokens[i].pos>>
              /\ CategoryRead(call.attack, Feature(CallTokens[i], "csv"))
                    = CategoryRead(call.attack, Feature(CallTokens[i], "attr"))
        /\ \A j \in 1 .. Len(call.targets) :
              call.attack # "kata2hira_word" =>
                  CallTokens[call.targets[j]].pos \notin ExcludedPos

\* the token indices a word-level attack may select, by the tokens' categories
EligibleIndices ==
    {i \in 1 .. Len(CallTokens) :
        /\ CallTokens[i].pos \notin ExcludedPos
        /\ call.pos_tag = "None" \/ CallTokens[i].pos = call.pos_tag}

\* the surfaces of the tokens at the indices of S, in order, joined with no
\* separator
TextOf(S) ==
    LET order == InOrder(S)
    IN  Join([k \in 1 .. Cardinality(S) |-> CallTokens[order[k]].surface])

CandidatesAt(i) ==
    LET cands == call.lex[Yomi(CallTokens[i], enc)]
    IN  {cands[m] : m \in 1 .. Len(cands)}

C21_TargetsHaveAnotherCandidate ==
    (call.attack = "homophone_error" /\ ~call.raised) =>
        /\ \A j \in 1 .. Len(call.targets) :
              /\ Cardinality(CandidatesAt(call.targets[j])) >= 2
              /\ \E c \in CandidatesAt(call.targets[j]) :
                    c # CallTokens[call.targets[j]].surface
        /\ \A j \in 1 .. Len(call.chosen) : call.news[j] # ChosenSurface(j)

(* C24: for each selected token, SynonymReplace.apply_on_sample writes in  *)
(* place of the token's surface the first candidate of the ranked list,    *)
(* spaces removed, that differs from the original surface and from the     *)
(* mask token; when no candidate qualifies or the call raises, the surface *)
(* stays and the next selected token is handled.                           *)
\* the ranks of the candidates that differ from the surface and the mask
Qualifying(cands, original_word) ==
    {m \in 1 .. Len(cands) :
        StripSpaces(cands[m]) \notin {original_word, MaskToken}}

C24_FirstQualifyingCandidate ==
    (call.attack = "synonym_replace" /\ ~call.raised) =>
        /\ Len(call.oracle) = Len(call.chosen)
        /\ Len(call.news) = Len(call.chosen)
        /\ \A j \in 1 .. Len(call.chosen) :
              LET answer == call.oracle[j]
                  ranks  == Qualifying(answer.cands, ChosenSurface(j))
              IN  call.news[j] =
                      IF answer.raised \/ ranks = {} THEN ChosenSurface(j)
                      ELSE StripSpaces(answer.cands[
                               CHOOSE m \in ranks : \A n \in ranks : m <= n])
        /\ sample[call.key] =
              Join(Written(Surfaces(CallTokens), call.chosen, call.news))

----------------------------------------------------------------------------
(* The constructions of HomophoneError in one working directory, and calls *)
(* of apply_on_sample on the instance constructed last                     *)

\* most constructions in a behaviour
MaxConstructions == 2

\* the questions of the samples: up to two of the nouns that have a reading
LexiconSentences ==
    SeqsUpTo({t \in Vocabulary : t.surface \in {<<"x", "y">>, <<"x">>}}, 2)

InitLexicon == InitSample(LexiconSentences, 1)

\* HomophoneError.__init__: self.skk_dict = self._load_skk_dict()
Construct ==
    /\ Len(built) < MaxConstructions
    /\ \E response \in Responses, write \in WriteKinds, read \in ReadKinds :
         LET loaded == LoadSkkDict(cache, response, write, read)
         IN  /\ cache' = loaded.file
             /\ skk' = loaded.skk_dict
             /\ built' = Append(built, loaded)
    /\ UNCHANGED <<wordVars, attackVars, driverVars, scoreVars, loop>>

\* apply_on_sample of the instance constructed last
ApplyConstructed ==
    /\ built # <<>>
    /\ HomophoneErrorCall(skk)

NextLexicon == Construct \/ ApplyConstructed

SpecLexicon == InitLexicon /\ [][NextLexicon]_vars

(* C22: when the dictionary download raises or reading the dictionary file *)
(* raises, the construction of HomophoneError does not raise and the       *)
(* instance's lexicon is empty; a call of apply_on_sample on an instance   *)
(* with an empty lexicon stores the original text as the perturbed field.  *)
C22_LoadFailureGivesEmptyLexicon ==
    /\ \A k \in 1 .. Len(built) :
          (built[k].response.raised \/ built[k].read = "raises") =>
              /\ ~built[k].raised
              /\ built[k].skk_dict = NoLexicon
    /\ (call.attack = "homophone_error" /\ call.lex = NoLexicon) =>
          /\ ~call.raised
          /\ call.key \in DOMAIN sample
          /\ sample[call.key] = call.raw
          /\ call.raw = sample[Key(call.field)]

\* reading the cached dictionary raised at the second construction, and the
\* instance was then applied to a question whose token the dictionary lists
C22_Witness ==
    /\ Len(built) = 2
    /\ ~built[1].response.raised /\ built[1].skk_dict # NoLexicon
    /\ built[2].read = "raises" /\ cache.lines = DictionaryLines
    /\ call.attack = "homophone_error" /\ call.lex = NoLexicon
    /\ call.field = "question" /\ call.raw = <<"x", "y">>

\* the k-th construction downloaded the dictionary and stored it
FetchSucceeded(k) ==
    /\ built[k].fetched
    /\ ~built[k].response.raised /\ built[k].response.status_code = 200
    /\ built[k].write = "ok"

\* the dictionary is fetched only when the cache file does not exist
FetchedOnlyWithoutCache ==
    \A k \in 1 .. Len(built) : built[k].fetched => ~built[k].existed

\* after a successful fetch the file exists and nothing is fetched any more
NoFetchAfterSuccess ==
    \A k \in 1 .. Len(built) :
        FetchSucceeded(k) =>
            /\ built[k].file.exists
            /\ \A later \in k + 1 .. Len(built) : ~built[later].fetched

(* C23: over any sequence of constructions of HomophoneError the           *)
(* dictionary is fetched only when the cache file does not exist; after a  *)
(* successful fetch the cache file exists and later constructions fetch    *)
(* nothing; a failed fetch leaves no cache file, so a cache file that      *)
(* exists holds the content of a successful dictionary download.           *)
C23_CacheHoldsSuccessfulDownload ==
    /\ FetchedOnlyWithoutCache
    /\ NoFetchAfterSuccess
    /\ \A k \in 1 .. Len(built) :
          (built[k].fetched /\ ~FetchSucceeded(k)) => ~built[k].file.exists
    /\ cache.exists => cache.lines = DictionaryLines

----------------------------------------------------------------------------
(* SwapWord on sentences long enough for two disjoint pairs *)

\* most tokens of a sentence handed to SwapWord
MaxSwapTokens == 4

\* two nouns and a particle
SwapVocabulary == {t \in Vocabulary : t.surface \in {<<"x", "y">>, <<"x">>, <<"K", "n">>}}

SwapSentences == SeqsUpTo(SwapVocabulary, MaxSwapTokens)

InitSwap == InitSample(SwapSentences, 1)

SpecSwap == InitSwap /\ [][ApplySwapWord]_vars

\* the k-th pair swapped by the call
PairOf(k) == <<call.chosen[2 * k - 1], call.chosen[2 * k]>>

\* the surfaces after the pairs of the call were exchanged, each index taking
\* the surface of its partner
Exchanged ==
    [m \in 1 .. Len(CallTokens) |->
        IF \E k \in 1 .. (Len(call.chosen) \div 2) : m \in {PairOf(k)[1], PairOf(k)[2]}
        THEN LET k == CHOOSE k \in 1 .. (Len(call.chosen) \div 2) :
                          m \in {PairOf(k)[1], PairOf(k)[2]}
             IN  IF m = PairOf(k)[1] THEN CallTokens[PairOf(k)[2]].surface
                 ELSE CallTokens[PairOf(k)[1]].surface
        ELSE CallTokens[m].surface]

(* C20: within one SwapWord.apply_on_sample call only eligible token       *)
(* indices are swapped, at most max_words pairs are swapped and no index   *)
(* takes part in more than one swap; the resulting token list is a         *)
(* permutation of the original surfaces in which every ineligible token    *)
(* stays at its original index.                                            *)
C20_SwapsDisjointEligiblePairs ==
    call.attack = "swap_word" =>
        /\ ~call.raised
        /\ Len(call.chosen) % 2 = 0
        /\ Len(call.chosen) \div 2 <= call.max_words
        /\ \A i \in 1 .. Len(call.chosen) : call.chosen[i] \in EligibleIndices
        /\ \A i, j \in 1 .. Len(call.chosen) : i # j => call.chosen[i] # call.chosen[j]
        /\ \A m \in (1 .. Len(CallTokens)) \ EligibleIndices :
              Exchanged[m] = CallTokens[m].surface
        /\ call.key \in DOMAIN sample
        /\ sample[call.key] = Join(Exchanged)

\* two pairs were swapped in a sentence of four eligible tokens
C20_Witness ==
    /\ call.attack = "swap_word"
    /\ call.max_words = 2
    /\ Len(call.chosen) = 4
    /\ sample[call.key] # call.raw

----------------------------------------------------------------------------
(* The while loop of SwapWord.apply_on_sample, one pass at a time *)

\* largest max_words of the instances whose loop is followed
MaxPairs == 2

\* the questions: a noun and a particle, in any order
LoopSentences ==
    SeqsUpTo({t \in Vocabulary : t.surface \in {<<"x", "y">>, <<"K", "n">>}},
             MaxSwapTokens)

InitSwapLoop == InitSample(LoopSentences, 1)

\* the instances: max_words from 0, any category
LoopAttackers ==
    [max_words : 0 .. MaxPairs, max_perturbs : {0}, threshold : {0},
     pos_tag : {"None"}]

\* apply_on_sample up to the while loop: the tokens, the eligible indices,
\* word_list, the pool and the count
SwapWordBegin ==
    /\ loop.state = "off"
    /\ left > 0
    /\ \E a \in LoopAttackers :
         LET ts == toks["question"]
             target_indices == WordTargets(ts, enc, a)
         IN  loop' = [state |-> IF Len(target_indices) < 2 THEN "skipped" ELSE "while",
                      field |-> "question", max_words |-> a.max_words,
                      target_indices |-> target_indices,
                      word_list |-> Surfaces(ts),
                      target_indices_pool |-> target_indices,
                      swap_count |-> 0, pairs |-> <<>>]
    /\ UNCHANGED <<wordVars, attackVars, driverVars, scoreVars, lexVars>>

\* one pass of the while loop
SwapWordPass ==
    /\ loop.state = "while"
    /\ Continues(loop.swap_count, loop.max_words, loop.target_indices_pool)
    /\ \E c \in Samples(Len(loop.target_indices_pool), 2) :
         LET idx1 == loop.target_indices_pool[c[1]]
             idx2 == loop.target_indices_pool[c[2]]
         IN  loop' = [loop EXCEPT
                        !.word_list = SwapWords(@, idx1, idx2),
                        !.target_indices_pool = Remove(Remove(@, idx1), idx2),
                        !.swap_count = @ + 1,
                        !.pairs = @ \o <<idx1, idx2>>]
    /\ UNCHANGED <<wordVars, attackVars, driverVars, scoreVars, lexVars>>

\* the loop is left, or was never entered: the text is stored and returned
SwapWordEnd ==
    /\ \/ loop.state = "skipped"
       \/ /\ loop.state = "while"
          /\ ~Continues(loop.swap_count, loop.max_words, loop.target_indices_pool)
    /\ loop' = [loop EXCEPT !.state = "returned"]
    /\ LET a == [max_words |-> loop.max_words, max_perturbs |-> 0, threshold |-> 0,
                 pos_tag |-> "None"]
           raw == sample[Key(loop.field)]
           text == IF loop.state = "skipped" THEN raw ELSE Join(loop.word_list)
       IN  Stored("swap_word", loop.field, "SWR", a, NoLexicon,
                  Outcome(loop.target_indices, loop.pairs,
                          At(Surfaces(toks[loop.field]), loop.pairs), <<>>, <<>>,
                          text, FALSE))

NextSwapLoop == SwapWordBegin \/ SwapWordPass \/ SwapWordEnd

\* the interpreter goes on running the call
SpecSwapLoop == InitSwapLoop /\ [][NextSwapLoop]_vars /\ WF_vars(NextSwapLoop)

(* C29: the swap loop of SwapWord.apply_on_sample terminates for every     *)
(* number e of eligible indices and every max_words >= 0, after exactly    *)
(* min(max_words, floor(e/2)) swaps; with e < 2 there is no swap and the   *)
(* text is unchanged.                                                      *)
C29_SwapLoopTerminates ==
    /\ <>(loop.state = "returned")
    /\ [](loop.state = "returned" =>
            LET e == Len(loop.target_indices)
            IN  /\ loop.swap_count = Min(loop.max_words, e \div 2)
                /\ Len(loop.pairs) = 2 * loop.swap_count
                /\ e < 2 => /\ loop.swap_count = 0
                            /\ sample[PerturbedKey(loop.field, "SWR")] =
                                  sample[Key(loop.field)])

\* the count stopped the loop with a pair left in the pool
C29_Witness ==
    /\ loop.state = "returned"
    /\ Len(loop.target_indices) = 4 /\ loop.max_words = 1
    /\ loop.swap_count = 1 /\ Len(loop.target_indices_pool) = 2

----------------------------------------------------------------------------
(* Two attacks applied one after the other to the same sample *)

\* the questions of the chained calls: one token that holds a katakana
\* character, so that every attack but the hiragana repetition has a target
ChainSentences == {<<tok>> : tok \in {t \in Vocabulary : HasCharOf(t.surface, Katakana)}}

InitChain == InitSample(ChainSentences, 2)

SpecChain == InitChain /\ [][NextAttack]_vars

\* the call being made is of another attack, or on another field, than the
\* call before it
AnotherAttack == call'.attack # call.attack \/ call'.field # call.field

(* C3: each call of an attack's apply_on_sample adds exactly one key,      *)
(* <data_field>_perturbed_<SUFFIX> with the attack's own suffix, and leaves *)
(* the value of every key the sample had before the call unchanged (read   *)
(* for a returning call of an attack not yet applied to that field).       *)
C3_OneKeyAddedOthersKept ==
    [][(~call'.raised /\ AnotherAttack) =>
          /\ call'.key \notin DOMAIN sample
          /\ DOMAIN sample' = DOMAIN sample \cup {call'.key}
          /\ \A k \in DOMAIN sample : sample'[k] = sample[k]]_vars

(* C27: two distinct attacks of the registry write their result under     *)
(* different field names for the same data_field, so an attack applied     *)
(* after another one to the same sample never overwrites the perturbed     *)
(* field of the other.                                                     *)
C27_DistinctAttacksDistinctFields ==
    [][(call.attack # "none" /\ call'.attack # call.attack
            /\ call'.field = call.field) =>
          /\ call'.key # call.key
          /\ call.key \in DOMAIN sample => sample'[call.key] = sample[call.key]]_vars

----------------------------------------------------------------------------
(* The metrics of evaluation.py and evaluation_with_log.py *)

\* most units of a text handed to f1_score on its own
MaxText == 2
\* most entries of a dataset handed to evaluate_dataset
MaxSamples == 2
\* most gold answers of an entry
MaxGolds == 2

\* Numbers are fractions n/d in lowest terms, exact where Python computes in
\* floating point; d = 0 stands for the ZeroDivisionError of a division by 0.
RECURSIVE GCD(_, _)
GCD(a, b) == IF b = 0 THEN a ELSE GCD(b, a % b)

Frac(n, d) ==
    IF d = 0 THEN [n |-> 0, d |-> 0]
    ELSE LET g == GCD(n, d) IN [n |-> n \div g, d |-> d \div g]

Zero == Frac(0, 1)
One == Frac(1, 1)
Hundred == Frac(100, 1)

DividedByZero(x) == x.d = 0

\* x + y
Plus(x, y) == Frac(x.n * y.d + y.n * x.d, x.d * y.d)

\* x * y
Times(x, y) == Frac(x.n * y.n, x.d * y.d)

\* x / y
Over(x, y) == IF y.n = 0 THEN Frac(0, 0) ELSE Frac(x.n * y.d, x.d * y.n)

\* x > y
Greater(x, y) == x.n * y.d > y.n * x.d

\* A text is a sequence of units: the words the tagger splits it into, the
\* full stop, the blank and an emoji.
AnswerWords == {"tokyo", "daigaku"}
FullStop == "."
Blank == " "
Emoji == "emoji"
Units == AnswerWords \cup {FullStop, Blank, Emoji}

Texts == SeqsUpTo(Units, MaxText)

\* remove_emoji
RemoveEmoji(text) == SelectSeq(text, LAMBDA c : c # Emoji)

\* neologdn.normalize on Japanese text: the blanks at the ends and between
\* Japanese characters go
Neologdn(text) == SelectSeq(text, LAMBDA c : c # Blank)

\* " ".join(text.split())
WhiteSpaceFix(text) ==
    LET kept == {i \in 1 .. Len(text) :
                    \/ text[i] # Blank
                    \/ /\ i > 1 /\ text[i - 1] # Blank
                       /\ \E j \in (i + 1) .. Len(text) : text[j] # Blank}
        order == InOrder(kept)
    IN  [k \in 1 .. Cardinality(kept) |-> text[order[k]]]

NormalizeAnswer(s) == WhiteSpaceFix(Neologdn(RemoveEmoji(s)))

\* tagger.parse(text).split(): the words and marks of the text
Parse(text) == SelectSeq(text, LAMBDA c : c # Blank)

\* the marks of "exclude" that the texts can hold
Exclude == {FullStop}

RemovePunc(tokens) == SelectSeq(tokens, LAMBDA tok : tok \notin Exclude)

\* Counter(tokens)[tok]
CountOf(tokens, tok) == Cardinality({i \in 1 .. Len(tokens) : tokens[i] = tok})

\* the tokens both lists hold, each counted once
CommonOfSets(prediction_tokens, ground_truth_tokens) ==
    [tok \in {prediction_tokens[i] : i \in 1 .. Len(prediction_tokens)} \cap
             {ground_truth_tokens[i] : i \in 1 .. Len(ground_truth_tokens)} |-> 1]

\* Counter(prediction_tokens) & Counter(ground_truth_tokens)
Common(prediction_tokens, ground_truth_tokens) ==
    [tok \in {prediction_tokens[i] : i \in 1 .. Len(prediction_tokens)} \cap
             {ground_truth_tokens[i] : i \in 1 .. Len(ground_truth_tokens)} |->
        Min(CountOf(prediction_tokens, tok), CountOf(ground_truth_tokens, tok))]

RECURSIVE SumValues(_)
\* sum(common.values())
SumValues(common) ==
    IF DOMAIN common = {} THEN 0
    ELSE LET tok == CHOOSE t \in DOMAIN common : TRUE
         IN  common[tok] + SumValues([t \in DOMAIN common \ {tok} |-> common[t]])

F1Score(prediction, ground_truth) ==
    LET prediction_tokens == RemovePunc(Parse(NormalizeAnswer(prediction)))
        ground_truth_tokens == RemovePunc(Parse(NormalizeAnswer(ground_truth)))
        num_same == SumValues(Common(prediction_tokens, ground_truth_tokens))
        precision == IF Len(prediction_tokens) > 0
                     THEN Over(Frac(num_same, 1), Frac(Len(prediction_tokens), 1))
                     ELSE Zero
        recall == IF Len(ground_truth_tokens) > 0
                  THEN Over(Frac(num_same, 1), Frac(Len(ground_truth_tokens), 1))
                  ELSE Zero
    IN  IF num_same = 0 THEN Zero
        ELSE IF Greater(Plus(precision, recall), Zero)
        THEN Over(Times(Frac(2, 1), Times(precision, recall)), Plus(precision, recall))
        ELSE Zero

\* True and False as the numbers they add up as
ExactMatchScore(prediction, ground_truth) ==
    IF NormalizeAnswer(prediction) = NormalizeAnswer(ground_truth) THEN One ELSE Zero

\* max(scores); max of an empty list raises ValueError
MaxOf(scores) ==
    IF scores = <<>> THEN [raised |-> TRUE, value |-> Zero]
    ELSE [raised |-> \E k \in 1 .. Len(scores) : DividedByZero(scores[k]),
          value |-> scores[CHOOSE k \in 1 .. Len(scores) :
                              \A m \in 1 .. Len(scores) : ~Greater(scores[m], scores[k])]]

MetricMaxOverGroundTruths(metric_fn, prediction, ground_truths) ==
    LET scores == [k \in 1 .. Len(ground_truths) |->
                     IF metric_fn = "f1_score"
                     THEN F1Score(prediction, ground_truths[k])
                     ELSE ExactMatchScore(prediction, ground_truths[k])]
    IN  [scores |-> scores, raised |-> MaxOf(scores).raised, value |-> MaxOf(scores).value]

\* the gold answers the datasets hold
GoldTexts == { <<"tokyo">>, <<"tokyo", "daigaku">>, <<"tokyo", FullStop>> }

\* entry['answers']: a dict with a 'text' list, a list, or a scalar
AnswerFields ==
    [kind : {"dict", "list"}, items : SeqsUpTo(GoldTexts, MaxGolds), scalar : {<<>>}]
    \cup [kind : {"scalar"}, items : {<<>>}, scalar : GoldTexts]

\* gold_answers
GoldAnswers(raw_answers) ==
    IF raw_answers.kind = "dict" THEN raw_answers.items
    ELSE IF raw_answers.kind = "list" THEN raw_answers.items
    ELSE <<raw_answers.scalar>>

\* what the model answers
Predictions ==
    { <<>>, <<"tokyo">>, <<"daigaku", "tokyo">>, <<"tokyo", "tokyo">>,
      <<Blank, "tokyo", Emoji>>, <<FullStop>> }

\* an entry of the dataset, with the prediction decoded for it
Entries == [prediction : Predictions, answers : AnswerFields]

NoScore ==
    [prediction |-> <<>>, gold_answers |-> <<>>, f1s |-> <<>>, ems |-> <<>>,
     raised |-> FALSE, f1 |-> Zero, em |-> Zero]

\* the scoring of one sample in evaluate_dataset
ScoreOf(prediction, gold_answers) ==
    LET f1 == MetricMaxOverGroundTruths("f1_score", prediction, gold_answers)
        em == MetricMaxOverGroundTruths("exact_match_score", prediction, gold_answers)
    IN  [prediction |-> prediction, gold_answers |-> gold_answers,
         f1s |-> f1.scores, ems |-> em.scores,
         raised |-> f1.raised \/ em.raised, f1 |-> f1.value, em |-> em.value]

NoTotal == [f1 |-> Zero, em |-> Zero]

\* total_f1 += f1; total_em += em
Accumulate(t, s) == [f1 |-> Plus(t.f1, s.f1), em |-> Plus(t.em, s.em)]

NotReturned == [state |-> "running", avg_f1 |-> Zero, avg_em |-> Zero]

Raised == [state |-> "raised", avg_f1 |-> Zero, avg_em |-> Zero]

\* avg_f1, avg_em; count = 0 raises ZeroDivisionError
Averages(t, n) ==
    IF n = 0 THEN Raised
    ELSE [state |-> "returned",
          avg_f1 |-> Times(Over(t.f1, Frac(n, 1)), Hundred),
          avg_em |-> Times(Over(t.em, Frac(n, 1)), Hundred)]

\* the totals after the loop over the dataset, or that a sample raised
Totals(dataset) ==
    LET scores == [k \in 1 .. Len(dataset) |->
                     ScoreOf(dataset[k].prediction, GoldAnswers(dataset[k].answers))]
        sum[k \in 0 .. Len(dataset)] ==
            IF k = 0 THEN NoTotal ELSE Accumulate(sum[k - 1], scores[k])
    IN  IF \E k \in 1 .. Len(dataset) : scores[k].raised
        THEN [raised |-> TRUE, total |-> NoTotal]
        ELSE [raised |-> FALSE, total |-> sum[Len(dataset)]]

\* evaluate_dataset as a whole
EvaluateDataset(dataset) ==
    IF Totals(dataset).raised THEN Raised
    ELSE Averages(Totals(dataset).total, Len(dataset))

InitScore ==
    /\ size \in 0 .. MaxSamples
    /\ count = 0 /\ total = NoTotal /\ scored = NoScore /\ returned = NotReturned
    /\ fn = "none" /\ word = <<>> /\ cfg = [max_perturbs |-> 0, length_of_word_to_perturb |-> 0]
    /\ run = NoRun
    /\ enc = "csv" /\ toks = <<>> /\ sample = <<>> /\ call = NoCall /\ left = 0
    /\ IdleDriver
    /\ IdleLexicon
    /\ IdleLoop

\* f1_score called on its own
CallF1Score ==
    /\ fn = "none"
    /\ fn' = "f1_score"
    /\ \E prediction \in Texts, ground_truth \in Texts :
         scored' = ScoreOf(prediction, <<ground_truth>>)
    /\ returned' = [state |-> (IF scored'.raised THEN "raised" ELSE "returned"),
                    avg_f1 |-> Zero, avg_em |-> Zero]
    /\ UNCHANGED <<size, count, total>>
    /\ UNCHANGED <<word, cfg, run>>
    /\ UNCHANGED <<attackVars, driverVars, lexVars, loop>>

\* one pass of the loop over the entries in evaluate_dataset
ScoreSample ==
    /\ fn \in {"none", "evaluate_dataset"}
    /\ returned.state = "running"
    /\ count < size
    /\ fn' = "evaluate_dataset"
    /\ \E entry \in Entries :
         /\ scored' = ScoreOf(entry.prediction, GoldAnswers(entry.answers))
         /\ IF scored'.raised
            THEN /\ returned' = Raised
                 /\ UNCHANGED <<count, total>>
            ELSE /\ total' = Accumulate(total, scored')
                 /\ count' = count + 1
                 /\ UNCHANGED returned
    /\ UNCHANGED size
    /\ UNCHANGED <<word, cfg, run>>
    /\ UNCHANGED <<attackVars, driverVars, lexVars, loop>>

\* after the loop: the averages
Average ==
    /\ fn \in {"none", "evaluate_dataset"}
    /\ returned.state = "running"
    /\ count = size
    /\ fn' = "evaluate_dataset"
    /\ returned' = Averages(total, count)
    /\ UNCHANGED <<size, count, total, scored>>
    /\ UNCHANGED <<word, cfg, run>>
    /\ UNCHANGED <<attackVars, driverVars, lexVars, loop>>

NextScore == CallF1Score \/ ScoreSample \/ Average

SpecScore == InitScore /\ [][NextScore]_vars

----------------------------------------------------------------------------
(* Properties of the metrics *)

\* the tokens f1_score counts in a text
CountedTokens(text) == RemovePunc(Parse(NormalizeAnswer(text)))

\* the bag of the tokens of a list
BagOfTokens(tokens) ==
    [tok \in {tokens[i] : i \in 1 .. Len(tokens)} |-> CountOf(tokens, tok)]

\* the size of the intersection of the two bags of tokens
SharedTokens(prediction, ground_truth) ==
    LET p == BagOfTokens(CountedTokens(prediction))
        g == BagOfTokens(CountedTokens(ground_truth))
    IN  BagCardinality(p (-) (p (-) g))

(* C11: on every pair of token lists (punctuation filtered out) f1_score    *)
(* returns 0 when the bag intersection is empty or a list is empty, and     *)
(* otherwise 2*P*R/(P+R) with num_same the sum of the minimum counts,       *)
(* P = num_same/|prediction tokens|, R = num_same/|gold tokens|; it never   *)
(* divides by zero.                                                         *)
C11_F1OfBagIntersection ==
    fn \in {"f1_score", "evaluate_dataset"} =>
        \A k \in 1 .. Len(scored.f1s) :
            LET f1 == scored.f1s[k]
                p == Len(CountedTokens(scored.prediction))
                g == Len(CountedTokens(scored.gold_answers[k]))
                num_same == SharedTokens(scored.prediction, scored.gold_answers[k])
            IN  /\ ~DividedByZero(f1)
                /\ (num_same = 0 \/ p = 0 \/ g = 0) => f1 = Zero
                /\ (num_same > 0 /\ p > 0 /\ g > 0) =>
                      f1.n * (p + g) = 2 * num_same * f1.d

\* f1_score has returned 2/3: one of two predicted tokens is the gold token
C11_Witness ==
    /\ fn = "f1_score"
    /\ returned.state = "returned"
    /\ Len(CountedTokens(scored.prediction)) = 2
    /\ Len(CountedTokens(scored.gold_answers[1])) = 1
    /\ scored.f1s[1] = Frac(2, 3)

\* evaluate_dataset has scored a sample, or has raised while scoring it
SampleScored == fn = "evaluate_dataset" /\ (count > 0 \/ scored.raised)

\* value is the largest of the scores
IsMaximum(value, scores) ==
    /\ \E k \in 1 .. Len(scores) : scores[k] = value
    /\ \A k \in 1 .. Len(scores) : ~Greater(scores[k], value)

(* C12: whatever the shape of the answers field (a dict with a text list,  *)
(* a list, a scalar) and whatever the number of gold answers it yields,     *)
(* evaluate_dataset scores the sample without raising, and the sample's EM  *)
(* and F1 are each the maximum of the metric over the gold answers.         *)
C12_SampleScoredAsMaxima ==
    SampleScored =>
        /\ ~scored.raised
        /\ IsMaximum(scored.f1, scored.f1s)
        /\ IsMaximum(scored.em, scored.ems)

(* C28: for every prediction and gold answer, when exact_match_score is    *)
(* true for the pair, f1_score of the pair is 1.                           *)
C28_ExactMatchImpliesFullF1 ==
    fn \in {"f1_score", "evaluate_dataset"} =>
        \A k \in 1 .. Len(scored.ems) :
            scored.ems[k] = One => scored.f1s[k] = One

----------------------------------------------------------------------------
(* The main programs: what they find, print and write *)

\* longest list of --attacks
MaxAttacks == 2

\* the keys of ATTACK_REGISTRY, in the order of the dict
RegistryKeys ==
    <<"delete_char", "insert_char", "replace_char", "repeat_char",
      "hira2kata_char", "kata2hira_char", "synonym_replace", "homophone_error",
      "swap_word", "delete_word", "repeat_word", "hira2kata_word",
      "kata2hira_word", "back_translation">>

InRegistry(attack_name) == \E k \in 1 .. Len(RegistryKeys) : RegistryKeys[k] = attack_name

\* the names given on the command line; the last one is no key of the registry
RequestNames == {"delete_char", "synonym_replace", "no_such_attack"}

\* --attacks (nargs='+'): 'all', or one name or more
Requests == {<<"all">>} \cup (SeqsUpTo(RequestNames, MaxAttacks) \ {<<>>})

\* target_attacks
TargetAttacks(attacks) ==
    IF \E k \in 1 .. Len(attacks) : attacks[k] = "all" THEN RegistryKeys ELSE attacks

\* where the body of the loop raises for an attack: nowhere ("no"), in the
\* attacker's constructor, in raw_dataset.map, in open() or in json.dump
FaultKinds == {"no", "construct", "map", "open", "dump"}

Faults == [{"delete_char", "synonym_replace"} -> FaultKinds]

\* ATTACK_REGISTRY[attack_name] raises KeyError for an unknown name
FaultOf(a, attack_name) ==
    IF ~InRegistry(attack_name) THEN "lookup"
    ELSE IF attack_name \in DOMAIN a.faults THEN a.faults[attack_name]
    ELSE "no"

\* args.output_dir
OutputDir == <<"perturbed_data">>

\* a save path that does not depend on the attack
SharedSavePath(output_dir, attack_name) == output_dir \o <<"dataset", ".json">>

\* os.path.join(args.output_dir, f"{attack_name}.json")
SavePath(output_dir, attack_name) == output_dir \o <<attack_name, ".json">>

\* one write of the run to a path: by the loop position it happened at
\* (0 outside the loop), whole or cut short by an exception
Written1(by, complete) == [by |-> by, complete |-> complete]

\* the disk after one more write to path
Write(d, path, w) ==
    IF path \in DOMAIN d THEN [d EXCEPT ![path] = Append(@, w)]
    ELSE d @@ (path :> <<w>>)

\* a printed message
Msg(event, item, k) == [event |-> event, item |-> item, at |-> k]

\* a loop that stops at the first failure
AbortOnFailure(k, n, failed) == IF failed THEN n + 1 ELSE k + 1

\* "for ... in ...:" with the try/except inside the body: the loop goes on to
\* the next item whether the body failed or not
NextIndex(k, n, failed) == k + 1

GenerateArgs ==
    [program : {"generate_attacks"}, attacks : Requests, faults : Faults,
     load_ok : BOOLEAN, column_present : BOOLEAN]

\* generate_attacks.main up to the loop
GenerateSetup ==
    /\ pc = "start"
    /\ args.program = "generate_attacks"
    /\ IF ~args.load_ok
       THEN /\ printed' = Append(printed, Msg("failed_to_load_dataset", <<>>, 0))
            /\ pc' = "done" /\ status' = "exit 0"
            /\ UNCHANGED <<cursor, disk>>
       ELSE IF ~args.column_present
       THEN /\ printed' = Append(printed, Msg("target_column_not_found", <<>>, 0))
            /\ pc' = "done" /\ status' = "exit 0"
            /\ UNCHANGED <<cursor, disk>>
       ELSE /\ printed' = Append(printed,
                                 Msg("target_attacks", TargetAttacks(args.attacks), 0))
            /\ disk' = Write(disk, OutputDir, Written1(0, TRUE))
            /\ pc' = "loop" /\ cursor' = 1
            /\ UNCHANGED status
    /\ UNCHANGED <<args, results>>
    /\ UNCHANGED <<wordVars, attackVars, scoreVars, lexVars, loop>>

\* one pass of the attack loop of generate_attacks.main
GenerateAttack ==
    /\ pc = "loop"
    /\ args.program = "generate_attacks"
    /\ cursor <= Len(TargetAttacks(args.attacks))
    /\ LET target_attacks == TargetAttacks(args.attacks)
           attack_name    == target_attacks[cursor]
           fault          == FaultOf(args, attack_name)
           save_path      == SavePath(OutputDir, attack_name)
           executing      == Msg("executing_attack", attack_name, cursor)
           saving         == Msg("saving", attack_name, cursor)
           failed         == Msg("failed_to_process", attack_name, cursor)
       IN  /\ printed' = printed \o
                 (CASE fault = "no" -> <<executing, saving>>
                    [] fault \in {"open", "dump"} -> <<executing, saving, failed>>
                    [] OTHER -> <<executing, failed>>)
           /\ disk' = (CASE fault = "no" -> Write(disk, save_path, Written1(cursor, TRUE))
                         [] fault = "dump" -> Write(disk, save_path, Written1(cursor, FALSE))
                         [] OTHER -> disk)
           /\ cursor' = NextIndex(cursor, Len(target_attacks), fault # "no")
    /\ UNCHANGED <<args, pc, results, status>>
    /\ UNCHANGED <<wordVars, attackVars, scoreVars, lexVars, loop>>

\* the end of generate_attacks.main: the last print, and the normal return
GenerateFinish ==
    /\ pc = "loop"
    /\ args.program = "generate_attacks"
    /\ cursor > Len(TargetAttacks(args.attacks))
    /\ printed' = Append(printed, Msg("all_requested_attacks_completed", <<>>, 0))
    /\ pc' = "done" /\ status' = "exit 0"
    /\ UNCHANGED <<args, cursor, disk, results>>
    /\ UNCHANGED <<wordVars, attackVars, scoreVars, lexVars, loop>>

----------------------------------------------------------------------------
(* evaluation.main and evaluation_with_log.main *)

Evaluators == {"evaluation", "evaluation_with_log"}

\* what os.listdir(args.data_dir) can hold, each name in its parts
DirEntries ==
    { <<"broken", ".json">>, <<"clean", ".json">>, <<"delete_char", ".json">>,
      <<"notes", ".txt">>, <<"state", "_log", ".json">> }

\* the names of DirEntries as files.sort() orders them
NameOrder ==
    << <<"broken", ".json">>, <<"clean", ".json">>, <<"delete_char", ".json">>,
       <<"notes", ".txt">>, <<"state", "_log", ".json">> >>

\* f.endswith('.json') and not f.startswith('state')
IsDataset(f) == f[Len(f)] = ".json" /\ f[1] # "state"

\* the names in the order os.listdir gave them, here the reverse one
FilesAsListed(listing) ==
    LET kept == SelectSeq(NameOrder, LAMBDA f : f \in listing /\ IsDataset(f))
    IN  [k \in 1 .. Len(kept) |-> kept[Len(kept) + 1 - k]]

\* files, after files.sort()
Files(listing) == SelectSeq(NameOrder, LAMBDA f : f \in listing /\ IsDataset(f))

\* the keys of data[0], in order: delete_char.json is the file
\* generate_attacks wrote for delete_char with --target_column, so it holds
\* the field DeleteChar stored; the other files hold the dataset's columns
FileKeys(f, target_column) ==
    IF f = <<"broken", ".json">> THEN <<>>
    ELSE IF f = <<"delete_char", ".json">>
    THEN <<Key("id"), Key("question"), Key("context"), Key("answers"),
           PerturbedKey(target_column, "DCR")>>
    ELSE <<Key("id"), Key("question"), Key("context"), Key("answers")>>

\* json.load of a file of the directory
FileContent(f) ==
    [readable |-> f # <<"broken", ".json">>]

\* key.startswith('question_perturbed_')
IsPerturbedQuestion(key) ==
    Len(key) >= 2 /\ key[1] = "question" /\ key[2] = "_perturbed_"

\* target_question_key
TargetQuestionKey(keys, force_clean) ==
    LET hits == {k \in 1 .. Len(keys) : IsPerturbedQuestion(keys[k])}
    IN  IF force_clean \/ hits = {} THEN Key("question")
        ELSE keys[CHOOSE k \in hits : \A m \in hits : k <= m]

\* the files json.load can read
Readable(listing) == {f \in listing : IsDataset(f) /\ FileContent(f).readable}

\* what a readable file can hold, each entry with the answer the model gives:
\* nothing; one sample answered exactly; that sample and one answered in
\* part; one sample without gold answers
DriverDatasets ==
    LET exact   == [prediction |-> <<"tokyo">>,
                    answers |-> [kind |-> "dict", items |-> << <<"tokyo">> >>,
                                 scalar |-> <<>>]]
        partial == [prediction |-> <<"daigaku", "tokyo">>,
                    answers |-> [kind |-> "list", items |-> << <<"tokyo">> >>,
                                 scalar |-> <<>>]]
        no_gold == [prediction |-> <<"tokyo">>,
                    answers |-> [kind |-> "dict", items |-> <<>>, scalar |-> <<>>]]
    IN  { <<>>, <<exact>>, <<exact, partial>>, <<no_gold>> }

\* args.pred_output_dir
PredOutputDir == <<"prediction_logs">>

\* os.path.join(args.pred_output_dir, pred_filename)
PredSavePath(filename, force_clean) ==
    PredOutputDir \o (IF force_clean THEN <<"preds_clean_baseline", ".json">>
                      ELSE <<"preds_">> \o filename)

\* save_file: args.output_file, or <base>_clean<ext> with --force_clean
SaveFile(force_clean) ==
    IF force_clean THEN <<"evaluation_results", "_clean", ".json">>
    ELSE <<"evaluation_results", ".json">>

\* how a with open(..., 'w') ... json.dump block can go
SaveKinds == {"no", "open", "dump"}

\* a test that never finds the directory missing
DirectoryCheckSkipped(a) == FALSE

\* not os.path.exists(args.data_dir)
DirectoryMissing(a) == ~a.dir_exists

EvaluateArgs ==
    {a \in UNION {[program : Evaluators, model_ok : BOOLEAN, dir_exists : BOOLEAN,
                   listing : {l}, datasets : [Readable(l) -> DriverDatasets],
                   pred_dir_exists : BOOLEAN, force_clean : BOOLEAN,
                   target_column : DataFields] :
                        l \in SUBSET DirEntries} :
        /\ ~a.dir_exists => a.listing = {}
        /\ <<"delete_char", ".json">> \notin a.listing => a.target_column = "question"
        /\ a.program = "evaluation" => ~a.pred_dir_exists}

\* both mains up to the loop: the model is loaded, then the directory tested
EvaluateSetup ==
    /\ pc = "start"
    /\ args.program \in Evaluators
    /\ LET loading == Msg("loading_tokenizer_and_model", <<>>, 0)
           makes   == args.program = "evaluation_with_log" /\ ~args.pred_dir_exists
           made    == IF makes THEN Write(disk, PredOutputDir, Written1(0, TRUE))
                      ELSE disk
       IN  IF ~args.model_ok
           THEN \* from_pretrained raises, nothing catches it
                /\ printed' = <<loading>>
                /\ pc' = "done" /\ status' = "exit 1"
                /\ UNCHANGED <<cursor, disk>>
           ELSE IF DirectoryMissing(args)
           THEN /\ printed' = <<loading, Msg("directory_not_found", <<>>, 0)>>
                /\ pc' = "done" /\ status' = "exit 0"
                /\ UNCHANGED <<cursor, disk>>
           ELSE IF ~args.dir_exists
           THEN \* os.listdir raises FileNotFoundError, nothing catches it
                /\ printed' = <<loading>>
                /\ disk' = made
                /\ pc' = "done" /\ status' = "exit 1"
                /\ UNCHANGED cursor
           ELSE /\ printed' = <<loading, Msg("found_datasets", Files(args.listing), 0)>>
                /\ disk' = made
                /\ pc' = "loop" /\ cursor' = 1
                /\ UNCHANGED status
    /\ UNCHANGED <<args, results>>
    /\ UNCHANGED <<wordVars, attackVars, scoreVars, lexVars, loop>>

\* the record appended to results; evaluation.py unpacks the returned pair as
\* "em, f1", evaluation_with_log.py as "f1, em, predictions"
SummaryRecord(program, filename, key, e, data) ==
    [filename |-> filename, attack_type |-> key,
     em |-> IF program = "evaluation" THEN e.avg_f1 ELSE e.avg_em,
     f1 |-> IF program = "evaluation" THEN e.avg_em ELSE e.avg_f1,
     num_samples |-> Len(data)]

\* one pass of the file loop
EvaluateFile ==
    /\ pc = "loop"
    /\ args.program \in Evaluators
    /\ cursor <= Len(Files(args.listing))
    /\ LET files      == Files(args.listing)
           filename   == files[cursor]
           data       == FileContent(filename)
           dataset    == IF data.readable THEN args.datasets[filename] ELSE <<>>
           key        == TargetQuestionKey(FileKeys(filename, args.target_column),
                                           args.force_clean)
           processing == Msg("processing", <<filename, key>>, cursor)
           failed     == Msg("failed_to_evaluate", filename, cursor)
           path       == PredSavePath(filename, args.force_clean)
       IN  IF ~data.readable \/ dataset = <<>>
           THEN \* json.load raises, or data[0] raises IndexError
                /\ printed' = Append(printed, failed)
                /\ cursor' = NextIndex(cursor, Len(files), TRUE)
                /\ UNCHANGED <<disk, results>>
           ELSE \E e \in {EvaluateDataset(dataset)}, save \in SaveKinds :
                  /\ args.program = "evaluation" => save = "no"
                  /\ e.state = "raised" => save = "no"
                  /\ IF e.state = "raised"
                     THEN /\ printed' = printed \o <<processing, failed>>
                          /\ cursor' = NextIndex(cursor, Len(files), TRUE)
                          /\ UNCHANGED <<disk, results>>
                     ELSE /\ results' = Append(results,
                                SummaryRecord(args.program, filename, key, e, dataset))
                          /\ printed' = printed \o
                                (IF save = "no"
                                 THEN <<processing, Msg("scores", filename, cursor)>>
                                 ELSE <<processing, Msg("scores", filename, cursor), failed>>)
                          /\ disk' =
                                (IF args.program = "evaluation" \/ save = "open" THEN disk
                                 ELSE Write(disk, path, Written1(cursor, save = "no")))
                          /\ cursor' =
                                (IF args.force_clean /\ save = "no"
                                 THEN Len(files) + 1
                                 ELSE NextIndex(cursor, Len(files), save # "no"))
    /\ UNCHANGED <<args, pc, status>>
    /\ UNCHANGED <<wordVars, attackVars, scoreVars, lexVars, loop>>

\* after the loop: the summary is written, outside any try
EvaluateFinish ==
    /\ pc = "loop"
    /\ args.program \in Evaluators
    /\ cursor > Len(Files(args.listing))
    /\ \E save \in SaveKinds :
         /\ disk' = (IF save = "open" THEN disk
                     ELSE Write(disk, SaveFile(args.force_clean), Written1(0, save = "no")))
         /\ printed' = (IF save = "no"
                        THEN Append(printed, Msg("evaluation_complete", <<>>, 0))
                        ELSE printed)
         /\ status' = (IF save = "no" THEN "exit 0" ELSE "exit 1")
    /\ pc' = "done"
    /\ UNCHANGED <<args, cursor, results>>
    /\ UNCHANGED <<wordVars, attackVars, scoreVars, lexVars, loop>>

----------------------------------------------------------------------------
(* A run of one of the three programs *)

InitDriver ==
    /\ args \in GenerateArgs \cup EvaluateArgs
    /\ pc = "start" /\ cursor = 0 /\ disk = <<>> /\ printed = <<>>
    /\ results = <<>> /\ status = "running"
    /\ fn = "off" /\ word = <<>> /\ cfg = [max_perturbs |-> 0, length_of_word_to_perturb |-> 0]
    /\ run = NoRun
    /\ enc = "csv" /\ toks = <<>> /\ sample = <<>> /\ call = NoCall /\ left = 0
    /\ IdleScore
    /\ IdleLexicon
    /\ IdleLoop

NextDriver ==
    \/ GenerateSetup
    \/ GenerateAttack
    \/ GenerateFinish
    \/ EvaluateSetup
    \/ EvaluateFile
    \/ EvaluateFinish

SpecDriver == InitDriver /\ [][NextDriver]_vars

----------------------------------------------------------------------------
(* Properties of the batch driver and of the fatal configuration errors *)

\* the run is generate_attacks.main and it got as far as the attack loop
InAttackLoop ==
    /\ args.program = "generate_attacks"
    /\ args.load_ok /\ args.column_present
    /\ pc \in {"loop", "done"}

\* the k-th requested attack
Requested(k) == TargetAttacks(args.attacks)[k]

\* the body of the loop raises for the k-th requested attack
Raises(k) == FaultOf(args, Requested(k)) # "no"

IsPrinted(m) == \E j \in 1 .. Len(printed) : printed[j] = m

\* the writes to a path so far
WritesTo(path) == IF path \in DOMAIN disk THEN disk[path] ELSE <<>>

\* the k-th pass wrote the whole file of its attack
WroteOwnFile(k) ==
    LET ws == WritesTo(SavePath(OutputDir, Requested(k)))
    IN  \E j \in 1 .. Len(ws) : ws[j] = Written1(k, TRUE)

(* C4: in the loop of generate_attacks.main, for any list of requested     *)
(* attacks and any subset of them that raises (registry lookup,            *)
(* construction, mapping or saving), every requested attack after a        *)
(* failing one is still attempted, and every attack that does not raise    *)
(* has its own file <attack_name>.json written.                            *)
C4_FailureDoesNotAbortLoop ==
    InAttackLoop =>
        /\ pc = "done" => cursor = Len(TargetAttacks(args.attacks)) + 1
        /\ \A k \in 1 .. Len(TargetAttacks(args.attacks)) :
              k < cursor =>
                  /\ IsPrinted(Msg("executing_attack", Requested(k), k))
                  /\ Raises(k) <=> IsPrinted(Msg("failed_to_process", Requested(k), k))
                  /\ ~Raises(k) => WroteOwnFile(k)

C4_Witness ==
    /\ InAttackLoop /\ pc = "done"
    /\ Len(args.attacks) >= 2
    /\ Raises(1) /\ ~Raises(2)
    /\ WroteOwnFile(2)

\* the run of C5: delete_char completed at position a, synonym_replace
\* raised at a later position b, and main has ended
EarlierDoneLaterRaised(a, b) ==
    /\ a < b
    /\ Requested(a) = "delete_char" /\ ~Raises(a)
    /\ Requested(b) = "synonym_replace" /\ Raises(b)

C5_Case ==
    /\ InAttackLoop /\ pc = "done"
    /\ \E a, b \in 1 .. Len(TargetAttacks(args.attacks)) : EarlierDoneLaterRaised(a, b)

(* C5 as stated: when delete_char has completed and the later              *)
(* synonym_replace raises, the file of delete_char is not modified         *)
(* afterwards and the run does not end with a success status.              *)
C5_ExitStatusReportsFailure ==
    C5_Case =>
        /\ \A j \in 1 .. Len(WritesTo(SavePath(OutputDir, "delete_char"))) :
              Requested(WritesTo(SavePath(OutputDir, "delete_char"))[j].by) = "delete_char"
        /\ status # "exit 0"

(* C5 amended: in that run the file of delete_char is written only by      *)
(* passes of delete_char, each write whole; the failure of synonym_replace *)
(* is printed, at its position in the loop; the loop goes on, main prints  *)
(* its closing message and returns normally, so the exit status is 0.      *)
C5_FailureOnlyPrinted ==
    C5_Case =>
        /\ \A a, b \in 1 .. Len(TargetAttacks(args.attacks)) :
              EarlierDoneLaterRaised(a, b) =>
                  /\ WroteOwnFile(a)
                  /\ IsPrinted(Msg("failed_to_process", "synonym_replace", b))
        /\ \A j \in 1 .. Len(WritesTo(SavePath(OutputDir, "delete_char"))) :
              LET w == WritesTo(SavePath(OutputDir, "delete_char"))[j]
              IN  Requested(w.by) = "delete_char" /\ w.complete
        /\ printed[Len(printed)] = Msg("all_requested_attacks_completed", <<>>, 0)
        /\ status = "exit 0"

C5_Witness ==
    /\ C5_Case
    /\ args.attacks = <<"delete_char", "synonym_replace">>
    /\ args.faults["synonym_replace"] = "dump"
    /\ WritesTo(SavePath(OutputDir, "synonym_replace")) = <<Written1(2, FALSE)>>

\* the required input is missing: the target column for generate_attacks
\* (the dataset itself was loaded), the data directory for the evaluators
ConfigMissing ==
    IF args.program = "generate_attacks"
    THEN args.load_ok /\ ~args.column_present
    ELSE ~args.dir_exists

\* the message of the fatal error
FatalMessage ==
    IF args.program = "generate_attacks"
    THEN Msg("target_column_not_found", <<>>, 0)
    ELSE Msg("directory_not_found", <<>>, 0)

\* the test of the configuration is reached: the evaluators load the model
\* before it, and a failure there ends the run with a traceback
CheckReached == args.program \in Evaluators => args.model_ok

(* C6: when the target column is absent from the loaded dataset            *)
(* (generate_attacks) or the data directory does not exist (both           *)
(* evaluators), the run reports the error and halts before executing an    *)
(* attack or evaluating a file, and writes no output artifact: no output   *)
(* directory, dataset, summary file, prediction directory or log.          *)
C6_FatalConfigHaltsFirst ==
    (pc # "off" /\ ConfigMissing) =>
        /\ pc \in {"start", "done"}
        /\ disk = <<>>
        /\ results = <<>>
        /\ cursor = 0
        /\ \A j \in 1 .. Len(printed) :
              printed[j].event \notin {"executing_attack", "processing", "found_datasets"}
        /\ (pc = "done" /\ CheckReached) =>
              /\ printed[Len(printed)] = FatalMessage
              /\ status = "exit 0"

C6_Witness ==
    /\ args # <<>>
    /\ args.program = "evaluation_with_log"
    /\ ~args.dir_exists /\ args.model_ok /\ ~args.pred_dir_exists
    /\ pc = "done"
    /\ IsPrinted(Msg("directory_not_found", <<>>, 0))

----------------------------------------------------------------------------
(* Properties of the evaluators' summaries *)

\* 100 x (the sum of the per-sample scores of a metric / the number of samples)
PercentOf(sum, dataset) == Times(Hundred, Over(sum, Frac(Len(dataset), 1)))

(* C13: for each file evaluated, the em field of its summary record is     *)
(* 100 x (sum of the per-sample exact-match scores / number of samples),    *)
(* its f1 field is 100 x (sum of the per-sample F1 scores / number of       *)
(* samples), and the record {filename, attack_type, em, f1, num_samples} is *)
(* the one either evaluator appends for that file and those model outputs.  *)
C13_SummaryIsAverageOfSamples ==
    args.program \in Evaluators =>
        \A k \in 1 .. Len(results) :
            LET r == results[k]
                dataset == args.datasets[r.filename]
                sums == Totals(dataset).total
                e == EvaluateDataset(dataset)
            IN  /\ r.em = PercentOf(sums.em, dataset)
                /\ r.f1 = PercentOf(sums.f1, dataset)
                /\ r.num_samples = Len(dataset)
                /\ r = SummaryRecord("evaluation", r.filename, r.attack_type, e, dataset)
                /\ r = SummaryRecord("evaluation_with_log", r.filename, r.attack_type,
                                     e, dataset)

----------------------------------------------------------------------------
(* Properties of the evaluators' file loop *)

\* the run is an evaluator's and its loop has ended
LoopEnded == args.program \in Evaluators /\ pc = "done" /\ cursor > 0

\* json.load, data[0] and evaluate_dataset all return for the file
Evaluates(f) ==
    /\ FileContent(f).readable
    /\ args.datasets[f] # <<>>
    /\ EvaluateDataset(args.datasets[f]).state = "returned"

\* the position of a name in sorted order
Rank(f) == CHOOSE k \in 1 .. Len(NameOrder) : NameOrder[k] = f

\* the k-th pass of the loop took place
Attempted(k) == \E j \in 1 .. Len(printed) : printed[j].at = k

\* the records are of files that evaluate, in sorted order, one for a file
RecordsOfEvaluatedFiles ==
    /\ \A i \in 1 .. Len(results) :
          /\ results[i].filename \in args.listing
          /\ IsDataset(results[i].filename)
          /\ Evaluates(results[i].filename)
    /\ \A i, j \in 1 .. Len(results) :
          i < j => Rank(results[i].filename) < Rank(results[j].filename)

\* every file of the directory was attempted, and every file that evaluates
\* has a record
AllFilesEvaluated ==
    /\ \A k \in 1 .. Len(Files(args.listing)) : Attempted(k)
    /\ \A f \in args.listing :
          (IsDataset(f) /\ Evaluates(f)) =>
              \E i \in 1 .. Len(results) : results[i].filename = f

(* C25 as stated: in the file loop of both evaluators a file whose loading *)
(* or evaluation raises is skipped and every remaining file is still       *)
(* evaluated; the summary holds exactly one record for each file that      *)
(* evaluated successfully, in sorted filename order, and none for a failed *)
(* file.                                                                   *)
C25_FailedFileSkippedOthersRecorded ==
    LoopEnded => (RecordsOfEvaluatedFiles /\ AllFilesEvaluated)

(* C25 amended: the summary holds records only of files that evaluated,    *)
(* at most one for a file, in sorted filename order; without --force_clean *)
(* every file is attempted whatever failed before it and every file that   *)
(* evaluates has its record.                                               *)
C25_FailedFileSkippedWithoutForceClean ==
    LoopEnded =>
        /\ RecordsOfEvaluatedFiles
        /\ ~args.force_clean => AllFilesEvaluated

\* the first file cannot be loaded, the second has a sample without gold
\* answers, the third evaluates and is the only one recorded
C25_Witness ==
    /\ LoopEnded /\ ~args.force_clean /\ status = "exit 0"
    /\ Len(Files(args.listing)) = 3
    /\ ~FileContent(Files(args.listing)[1]).readable
    /\ ~Evaluates(Files(args.listing)[2])
    /\ Len(results) = 1 /\ results[1].filename = Files(args.listing)[3]

(* C26: with --force_clean the evaluator evaluates the original question   *)
(* column and no perturbed column, evaluates once (it stops after one      *)
(* file, so the summary holds at most one record) and writes the summary   *)
(* to <output_file base>_clean<ext>, not to the configured output file.    *)
C26_ForceCleanEvaluatesOnce ==
    (args.program \in Evaluators /\ args.force_clean) =>
        /\ \A i \in 1 .. Len(results) : results[i].attack_type = Key("question")
        /\ Len(results) <= 1
        /\ WritesTo(SaveFile(FALSE)) = <<>>
        /\ (pc = "done" /\ status = "exit 0" /\ cursor > 0) =>
              WritesTo(SaveFile(TRUE)) = <<Written1(0, TRUE)>>

(* C30: for a file that generate_attacks wrote with any --target_column,   *)
(* the evaluator without --force_clean evaluates, and reports as           *)
(* attack_type, the field <target_column>_perturbed_<SUFFIX> the attack    *)
(* wrote; it uses the clean question column only when the file holds no    *)
(* perturbed field.                                                        *)
\* the perturbed fields a file holds
PerturbedFields(f) ==
    LET keys == FileKeys(f, args.target_column)
    IN  {keys[k] : k \in {m \in 1 .. Len(keys) :
                            Len(keys[m]) = 3 /\ keys[m][2] = "_perturbed_"}}

C30_EvaluatesThePerturbedField ==
    (args.program \in Evaluators /\ ~args.force_clean) =>
        \A i \in 1 .. Len(results) :
            IF PerturbedFields(results[i].filename) = {}
            THEN results[i].attack_type = Key("question")
            ELSE /\ results[i].attack_type \in PerturbedFields(results[i].filename)
                 /\ results[i].attack_type[1] = args.target_column

====
